---- MODULE Spec2Model ----
(***************************************************************************)
(* Flight price prediction service (ml-service).                           *)
(*                                                                         *)
(* The module models the programs of the repository as one system that     *)
(* shares the files of the models/ directory:                              *)
(*   train_simple.py   linear-regression trainer, writes price_model.json  *)
(*   simple_train.py   random-forest trainer, writes price_model.json      *)
(*   api.py            HTTPServer that serves price_model.json             *)
(*   api_simple.py     socket server that serves price_model.json          *)
(*   app.py            Flask service that serves the *.pkl artifacts       *)
(*                                                                         *)
(* Python floats are modelled as exact rationals extended with nan and     *)
(* the two infinities; Python dicts as functions with a finite domain of   *)
(* strings; Python lists as sequences.                                     *)
(***************************************************************************)
EXTENDS Integers, Sequences, FiniteSets, TLC

(***************************************************************************)
(* Python float: [k, n, d].  k = "fin": the rational n/d in lowest terms,  *)
(* d > 0.  k = "inf": n is the sign.  k = "nan".  PyNone is Python's None. *)
(***************************************************************************)
RECURSIVE Gcd(_, _)
Gcd(a, b) == IF b = 0 THEN a ELSE Gcd(b, a % b)

Abs(i) == IF i < 0 THEN -i ELSE i

Sign(i) == IF i < 0 THEN -1 ELSE IF i = 0 THEN 0 ELSE 1

Fin(n, d) ==
    LET s == IF d < 0 THEN -1 ELSE 1
        g == Gcd(Abs(n), Abs(d))
    IN  [k |-> "fin", n |-> (s * n) \div g, d |-> (s * d) \div g]

FInt(i) == [k |-> "fin", n |-> i, d |-> 1]

NaN == [k |-> "nan", n |-> 0, d |-> 1]

Inf(s) == [k |-> "inf", n |-> s, d |-> 1]

PyNone == [k |-> "none", n |-> 0, d |-> 1]

Zero == FInt(0)

FSign(a) == Sign(a.n)

FNeg(a) == IF a.k = "nan" THEN NaN ELSE [a EXCEPT !.n = -a.n]

FAdd(a, b) ==
    IF a.k = "nan" \/ b.k = "nan" THEN NaN
    ELSE IF a.k = "inf" /\ b.k = "inf" THEN (IF a.n = b.n THEN a ELSE NaN)
    ELSE IF a.k = "inf" THEN a
    ELSE IF b.k = "inf" THEN b
    ELSE LET g == Gcd(a.d, b.d)
         IN  Fin(a.n * (b.d \div g) + b.n * (a.d \div g), (a.d \div g) * b.d)

FSub(a, b) == FAdd(a, FNeg(b))

FMul(a, b) ==
    IF a.k = "nan" \/ b.k = "nan" THEN NaN
    ELSE IF a.k = "inf" \/ b.k = "inf"
         THEN (IF FSign(a) * FSign(b) = 0 THEN NaN ELSE Inf(FSign(a) * FSign(b)))
    ELSE LET g1 == Gcd(Abs(a.n), b.d)
             g2 == Gcd(Abs(b.n), a.d)
         IN  Fin((a.n \div g1) * (b.n \div g2), (a.d \div g2) * (b.d \div g1))

\* a / b for b # 0 (Python raises ZeroDivisionError for b = 0: see IsZero)
FDiv(a, b) ==
    IF a.k = "nan" \/ b.k = "nan" THEN NaN
    ELSE IF a.k = "inf" /\ b.k = "inf" THEN NaN
    ELSE IF a.k = "inf" THEN Inf(FSign(a) * FSign(b))
    ELSE IF b.k = "inf" THEN Zero
    ELSE FMul(a, Fin(b.d, b.n))

IsZero(a) == a.k = "fin" /\ a.n = 0

\* a > b; every comparison with nan is False
FGt(a, b) ==
    IF a.k = "nan" \/ b.k = "nan" THEN FALSE
    ELSE IF a.k = "inf" THEN (a.n = 1 /\ ~(b.k = "inf" /\ b.n = 1))
    ELSE IF b.k = "inf" THEN b.n = -1
    ELSE a.n * b.d > b.n * a.d

\* a == b; nan equals nothing
FEq(a, b) == a.k # "nan" /\ b.k # "nan" /\ a = b

FGe(a, b) == FGt(a, b) \/ FEq(a, b)

\* a <= b
FLe(a, b) == FGt(b, a) \/ FEq(a, b)

\* max(0, x): the first argument is kept unless the second is greater
\* a prediction boundary without the clamp
PyMax0_Unclamped(x) == x

PyMax0(x) == IF FGt(x, Zero) THEN x ELSE Zero

\* abs(x)
FAbs(a) == IF a.k = "nan" THEN NaN ELSE [a EXCEPT !.n = Abs(a.n)]

RECURSIVE FSum(_)
FSum(s) == IF s = <<>> THEN Zero ELSE FAdd(FSum(SubSeq(s, 1, Len(s) - 1)), s[Len(s)])

(***************************************************************************)
(* Python str, for the timestamp columns: a sequence of one-character      *)
(* strings, so that replace, split, int() and datetime.fromisoformat are   *)
(* computed on the characters.                                             *)
(***************************************************************************)
Digits == {"0", "1", "2", "3", "4", "5", "6", "7", "8", "9"}

DigitVal(c) ==
    CASE c = "0" -> 0 [] c = "1" -> 1 [] c = "2" -> 2 [] c = "3" -> 3 [] c = "4" -> 4
      [] c = "5" -> 5 [] c = "6" -> 6 [] c = "7" -> 7 [] c = "8" -> 8 [] c = "9" -> 9

\* the result of a call that may raise: ok with a value, or the exception's class
Ok(v) == [ok |-> TRUE, v |-> v, exc |-> "None"]

Raise(e) == [ok |-> FALSE, v |-> 0, exc |-> e]

AllDigits(cs) == \A i \in 1..Len(cs) : cs[i] \in Digits

RECURSIVE DigitsVal(_)
DigitsVal(cs) ==
    IF cs = <<>> THEN 0 ELSE 10 * DigitsVal(SubSeq(cs, 1, Len(cs) - 1)) + DigitVal(cs[Len(cs)])

\* str.strip() of blanks
RECURSIVE Strip(_)
Strip(cs) ==
    IF cs # <<>> /\ cs[1] = " " THEN Strip(Tail(cs))
    ELSE IF cs # <<>> /\ cs[Len(cs)] = " " THEN Strip(SubSeq(cs, 1, Len(cs) - 1))
    ELSE cs

\* int(str): optional sign, then digits only; ValueError otherwise
PyIntOfStr(cs0) ==
    LET cs   == Strip(cs0)
        sgn  == IF cs # <<>> /\ cs[1] = "-" THEN -1 ELSE 1
        body == IF cs # <<>> /\ cs[1] \in {"-", "+"} THEN Tail(cs) ELSE cs
    IN  IF body # <<>> /\ AllDigits(body) THEN Ok(sgn * DigitsVal(body))
        ELSE Raise("ValueError")

\* str.split(sep) for a one-character separator
RECURSIVE PySplit(_, _)
PySplit(cs, sep) ==
    IF \E i \in 1..Len(cs) : cs[i] = sep
    THEN LET i == CHOOSE j \in 1..Len(cs) :
                      cs[j] = sep /\ \A h \in 1..(j - 1) : cs[h] # sep
         IN  <<SubSeq(cs, 1, i - 1)>> \o PySplit(SubSeq(cs, i + 1, Len(cs)), sep)
    ELSE <<cs>>

\* time_str.replace('Z', '+00:00')
RECURSIVE ReplaceZ(_)
ReplaceZ(cs) ==
    IF cs = <<>> THEN <<>>
    ELSE (IF cs[1] = "Z" THEN <<"+", "0", "0", ":", "0", "0">> ELSE <<cs[1]>>)
         \o ReplaceZ(Tail(cs))

DaysInMonth(yy, mm) ==
    IF mm \in {4, 6, 9, 11} THEN 30
    ELSE IF mm = 2
         THEN (IF (yy % 4 = 0 /\ yy % 100 # 0) \/ yy % 400 = 0 THEN 29 ELSE 28)
    ELSE 31

\* two digits at positions i, i+1 of cs, as a number; -1 when they are not digits
TwoDigits(cs, i) ==
    IF i + 1 <= Len(cs) /\ cs[i] \in Digits /\ cs[i + 1] \in Digits
    THEN 10 * DigitVal(cs[i]) + DigitVal(cs[i + 1])
    ELSE -1

\* the date part YYYY-MM-DD (10 characters)
IsoDateOk(cs) ==
    /\ Len(cs) >= 10
    /\ AllDigits(SubSeq(cs, 1, 4))
    /\ cs[5] = "-" /\ cs[8] = "-"
    /\ LET yy == DigitsVal(SubSeq(cs, 1, 4))
           mm == TwoDigits(cs, 6)
           dd == TwoDigits(cs, 9)
       IN  yy >= 1 /\ mm \in 1..12 /\ dd >= 1 /\ dd <= DaysInMonth(yy, mm)

\* the utc offset +HH:MM or -HH:MM (6 characters), or nothing
IsoOffsetOk(cs) ==
    \/ cs = <<>>
    \/ /\ Len(cs) = 6
       /\ cs[1] \in {"+", "-"}
       /\ cs[4] = ":"
       /\ TwoDigits(cs, 2) \in 0..23
       /\ TwoDigits(cs, 5) \in 0..59

\* the time part HH[:MM[:SS]] followed by an optional offset
IsoTimeOk(cs) ==
    /\ TwoDigits(cs, 1) \in 0..23
    /\ \/ IsoOffsetOk(SubSeq(cs, 3, Len(cs)))
       \/ /\ Len(cs) >= 5 /\ cs[3] = ":" /\ TwoDigits(cs, 4) \in 0..59
          /\ \/ IsoOffsetOk(SubSeq(cs, 6, Len(cs)))
             \/ /\ Len(cs) >= 8 /\ cs[6] = ":" /\ TwoDigits(cs, 7) \in 0..59
                /\ IsoOffsetOk(SubSeq(cs, 9, Len(cs)))

\* datetime.fromisoformat(s).hour: YYYY-MM-DD[*HH[:MM[:SS]][+HH:MM]], any one
\* character as the separator; ValueError for every other string
FromIsoformatHour(cs) ==
    IF ~IsoDateOk(cs) THEN Raise("ValueError")
    ELSE IF Len(cs) = 10 THEN Ok(0)
    ELSE IF Len(cs) >= 13 /\ IsoTimeOk(SubSeq(cs, 12, Len(cs))) THEN Ok(TwoDigits(cs, 12))
    ELSE Raise("ValueError")

\* train_simple.py, api.py, api_simple.py: extract_hour
extract_hour(time_str) ==
    LET iso == FromIsoformatHour(ReplaceZ(time_str))
    IN  IF iso.ok THEN iso.v
        ELSE LET parts == PySplit(time_str, " ")
             IN  IF Len(parts) < 2 THEN 12                     \* IndexError
                 ELSE LET h == PyIntOfStr(PySplit(parts[2], ":")[1])
                      IN  IF h.ok THEN h.v ELSE 12             \* ValueError

\* simple_train.py: extract_hour; the except branch may raise ValueError itself
extract_hour_forest(time_str) ==
    LET iso == FromIsoformatHour(ReplaceZ(time_str))
    IN  IF iso.ok THEN Ok(iso.v)
        ELSE IF \E i \in 1..Len(time_str) : time_str[i] = ":"
             THEN PyIntOfStr(PySplit(time_str, ":")[1])
             ELSE Ok(12)


\* str.lower() on the letters of nan, inf and infinity
Lower(c) ==
    CASE c = "N" -> "n" [] c = "A" -> "a" [] c = "I" -> "i" [] c = "F" -> "f"
      [] c = "T" -> "t" [] c = "Y" -> "y" [] OTHER -> c

LowerStr(cs) == [i \in 1..Len(cs) |-> Lower(cs[i])]

RECURSIVE Pow10(_)
Pow10(e) == IF e = 0 THEN 1 ELSE 10 * Pow10(e - 1)

\* a cell that csv.DictReader fills with None (a row shorter than the header)
NoneCell == <<"<None>">>

\* float(x) for a str: [sign] digits [. digits], nan, inf, infinity, blanks
\* stripped; ValueError for every other string; TypeError for None
PyFloatOfStr(cs0) ==
    IF cs0 = NoneCell THEN Raise("TypeError")
    ELSE
    LET cs   == Strip(cs0)
        sgn  == IF cs # <<>> /\ cs[1] = "-" THEN -1 ELSE 1
        body == IF cs # <<>> /\ cs[1] \in {"-", "+"} THEN Tail(cs) ELSE cs
        low  == LowerStr(body)
        dot  == PySplit(body, ".")
    IN  IF low = <<"n", "a", "n">> THEN Ok(NaN)
        ELSE IF low \in {<<"i", "n", "f">>, <<"i", "n", "f", "i", "n", "i", "t", "y">>}
             THEN Ok(Inf(sgn))
        ELSE IF Len(dot) = 1 /\ body # <<>> /\ AllDigits(body)
             THEN Ok(FInt(sgn * DigitsVal(body)))
        ELSE IF /\ Len(dot) = 2 /\ AllDigits(dot[1]) /\ AllDigits(dot[2])
                /\ Len(dot[1]) + Len(dot[2]) > 0
             THEN Ok(Fin(sgn * (DigitsVal(dot[1]) * Pow10(Len(dot[2])) + DigitsVal(dot[2])),
                         Pow10(Len(dot[2]))))
        ELSE Raise("ValueError")

\* int(x) for a csv cell
PyIntOfCell(cs) == IF cs = NoneCell THEN Raise("TypeError") ELSE PyIntOfStr(cs)

\* int(x) for a float: ValueError for nan, OverflowError for an infinity,
\* truncation toward zero otherwise
PyIntOfFloat(f) ==
    IF f.k = "nan" THEN Raise("ValueError")
    ELSE IF f.k = "inf" THEN Raise("OverflowError")
    ELSE Ok(Sign(f.n) * (Abs(f.n) \div f.d))

(***************************************************************************)
(* Python dict: a function whose domain is the set of keys.                *)
(***************************************************************************)
EmptyDict == [k \in {} |-> 0]

\* d.get(key, default)
DictGet(d, key, default) == IF key \in DOMAIN d THEN d[key] ELSE default

\* d[key] = value
DictSet(d, key, value) == [k \in DOMAIN d \cup {key} |-> IF k = key THEN value ELSE d[k]]

\* len(d)
DictLen(d) == Cardinality(DOMAIN d)


(***************************************************************************)
(* Feature encoding.  A feature list is evaluated element by element, left *)
(* to right; an exception ends the evaluation and keeps what the elements  *)
(* before it did to the category maps.                                     *)
(*   st.maps   the dict of category maps the elements read and write       *)
(*   st.vals   the elements evaluated so far                               *)
(*   st.exc    the class of the exception raised, "None" when none         *)
(***************************************************************************)

\* an encode_categorical that issues a new code on every call
encode_categorical_Reissue(value, categories) ==
    LET cats == DictSet(categories, value, DictLen(categories))
    IN  [categories |-> cats, code |-> cats[value]]

\* train_simple.py, simple_train.py: encode_categorical
encode_categorical(value, categories) ==
    LET cats == IF value \notin DOMAIN categories
                THEN DictSet(categories, value, DictLen(categories))
                ELSE categories
    IN  [categories |-> cats, code |-> cats[value]]

\* an encode_category that inserts the unseen value, as encode_categorical does
encode_category_Inserting(value, mapping) ==
    LET cats == IF value \notin DOMAIN mapping
                THEN DictSet(mapping, value, DictLen(mapping))
                ELSE mapping
    IN  [categories |-> cats, code |-> cats[value]]

\* an encode_category whose fallback is the code 0
encode_category_Fallback0(value, mapping) ==
    [categories |-> mapping, code |-> DictGet(mapping, value, 0)]

\* api.py, api_simple.py: encode_category; the mapping is passed by reference
\* and is returned as the call leaves it
encode_category(value, mapping) ==
    [categories |-> mapping, code |-> DictGet(mapping, value, -1)]

\* the feature list of train_simple.py's train_model, then the price
LinearTrainSteps ==
    << [op |-> "cat",   key |-> "airline",          map |-> "airline_map"],
       [op |-> "cat",   key |-> "source_city",      map |-> "source_map"],
       [op |-> "float", key |-> "stops",            map |-> ""],
       [op |-> "hour",  key |-> "departure_time",   map |-> ""],
       [op |-> "hour",  key |-> "arrival_time",     map |-> ""],
       [op |-> "cat",   key |-> "destination_city", map |-> "dest_map"],
       [op |-> "cat",   key |-> "class",            map |-> "class_map"],
       [op |-> "float", key |-> "duration",         map |-> ""],
       [op |-> "float", key |-> "days_left",        map |-> ""],
       [op |-> "float", key |-> "price",            map |-> ""] >>

\* the feature list of simple_train.py's train_model, then the price
ForestTrainSteps ==
    << [op |-> "cat",      key |-> "airline",        map |-> "airline_map"],
       [op |-> "cat",      key |-> "source_city",    map |-> "source_map"],
       [op |-> "int",      key |-> "stops",          map |-> ""],
       [op |-> "hour_int", key |-> "departure_time", map |-> ""],
       [op |-> "hour_int", key |-> "arrival_time",   map |-> ""],
       [op |-> "cat",      key |-> "destinatin",     map |-> "dest_map"],
       [op |-> "cat",      key |-> "class",          map |-> "class_map"],
       [op |-> "int",      key |-> "duratin",        map |-> ""],
       [op |-> "int",      key |-> "days_left",      map |-> ""],
       [op |-> "float",    key |-> "price",          map |-> ""] >>

\* the feature list of predict_price in api.py and api_simple.py
\* (dflt: the default of flight_data.get; "0" stands for the int 0)
ServeSteps ==
    << [op |-> "cat_get",   key |-> "airline",        map |-> "airline_map", dflt |-> ""],
       [op |-> "cat_get",   key |-> "source_city",    map |-> "source_map",  dflt |-> ""],
       [op |-> "float_get", key |-> "stops",          map |-> "",            dflt |-> "0"],
       [op |-> "hour_get",  key |-> "departure_time", map |-> "",            dflt |-> ""],
       [op |-> "hour_get",  key |-> "arrival_time",   map |-> "",            dflt |-> ""],
       [op |-> "cat_get",   key |-> "destinatin",     map |-> "dest_map",    dflt |-> ""],
       [op |-> "cat_get",   key |-> "class",          map |-> "class_map",   dflt |-> "Economy"],
       [op |-> "float_get", key |-> "duratin",        map |-> "",            dflt |-> "0"],
       [op |-> "float_get", key |-> "days_left",      map |-> "",            dflt |-> "0"] >>

StRaise(st, e) == [st EXCEPT !.exc = e]

StPush(st, v) == [st EXCEPT !.vals = Append(@, v)]

\* float(x) / int(x) of a cell, appended as a number
StNumber(st, r) == IF r.ok THEN StPush(st, r.v) ELSE StRaise(st, r.exc)

\* one element of a feature list
FeatureStep(step, record, st) ==
    IF step.op \in {"cat", "float", "int", "hour", "hour_int"} /\ step.key \notin DOMAIN record
    THEN StRaise(st, "KeyError")                                  \* record[key]
    ELSE CASE step.op = "cat" ->
                LET m == encode_categorical(record[step.key], st.maps[step.map])
                IN  [st EXCEPT !.maps[step.map] = m.categories,
                               !.vals = Append(@, FInt(m.code))]
           [] step.op = "cat_get" ->
                IF step.map \notin DOMAIN st.maps THEN StRaise(st, "KeyError")
                ELSE LET m == encode_category(DictGet(record, step.key, step.dflt),
                                              st.maps[step.map])
                     IN  [st EXCEPT !.maps[step.map] = m.categories,
                                    !.vals = Append(@, FInt(m.code))]
           [] step.op = "float" -> StNumber(st, PyFloatOfStr(record[step.key]))
           [] step.op = "float_get" ->
                IF step.key \in DOMAIN record
                THEN StNumber(st, PyFloatOfStr(record[step.key]))
                ELSE StPush(st, Zero)                             \* float(0)
           [] step.op = "int" ->
                LET r == PyIntOfCell(record[step.key])
                IN  IF r.ok THEN StPush(st, FInt(r.v)) ELSE StRaise(st, r.exc)
           [] step.op = "hour" ->
                StPush(st, FInt(IF record[step.key] = NoneCell THEN 12
                                ELSE extract_hour(record[step.key])))
           [] step.op = "hour_get" ->
                StPush(st, FInt(extract_hour(DictGet(record, step.key, <<>>))))
           [] step.op = "hour_int" ->
                LET r == IF record[step.key] = NoneCell THEN Raise("TypeError")
                         ELSE extract_hour_forest(record[step.key])
                IN  IF r.ok THEN StPush(st, FInt(r.v)) ELSE StRaise(st, r.exc)

\* the elements steps[i..] in order, stopping at the first exception
RECURSIVE FeatureList(_, _, _, _)
FeatureList(steps, i, record, st) ==
    IF i > Len(steps) \/ st.exc # "None" THEN st
    ELSE FeatureList(steps, i + 1, record, FeatureStep(steps[i], record, st))

Encode(steps, record, maps) ==
    FeatureList(steps, 1, record, [maps |-> maps, vals |-> <<>>, exc |-> "None"])


(***************************************************************************)
(* train_simple.py: class LinearRegression.  A model is the record of the  *)
(* instance attributes weights, bias, mean_x, std_x.                       *)
(***************************************************************************)

\* the largest r with r * r <= n, searched in lo..(hi - 1)
RECURSIVE ISqrtIn(_, _, _)
ISqrtIn(n, lo, hi) ==
    IF hi - lo <= 1 THEN lo
    ELSE LET mid == (lo + hi) \div 2
         IN  IF mid * mid <= n THEN ISqrtIn(n, mid, hi) ELSE ISqrtIn(n, lo, mid)

ISqrt(n) == ISqrtIn(n, 0, (IF n < 46340 THEN n ELSE 46340) + 1)

\* the precision of an inexact square root: a multiple of 1 / SqrtScale
SqrtScale == 4

\* math.sqrt(v) for v >= 0: exact when v is the square of a rational, and
\* otherwise rounded down to a positive multiple of 1 / SqrtScale
PySqrt(v) ==
    IF v.k # "fin" THEN v
    ELSE LET rn == ISqrt(v.n)
             rd == ISqrt(v.d)
             q  == (v.n \div v.d) * SqrtScale * SqrtScale
                   + ((v.n % v.d) * SqrtScale * SqrtScale) \div v.d
         IN  IF rn * rn = v.n /\ rd * rd = v.d THEN Fin(rn, rd)
             ELSE Fin(IF ISqrt(q) = 0 THEN 1 ELSE ISqrt(q), SqrtScale)

\* [f(i) for i in range(n)]
Column(X, j) == [i \in 1..Len(X) |-> X[i][j]]

\* sum(v) / len(v)
Mean(v) == FDiv(FSum(v), FInt(Len(v)))

\* the dot product sum(w[j] * x[j] for j in range(len(x)))
Dot(w, x) == FSum([j \in 1..Len(x) |-> FMul(w[j], x[j])])

\* (x[j] - mean_x[j]) / std_x[j] for every j
Standardize(x, mean_x, std_x) ==
    [j \in 1..Len(x) |-> FDiv(FSub(x[j], mean_x[j]), std_x[j])]

\* lines 59-64: the mean and the standard deviation of every feature
FitMean(X) == [j \in 1..Len(X[1]) |-> Mean(Column(X, j))]

FitStd(X) ==
    [j \in 1..Len(X[1]) |->
        LET m        == Mean(Column(X, j))
            variance == Mean([i \in 1..Len(X) |->
                                 FMul(FSub(X[i][j], m), FSub(X[i][j], m))])
        IN  IF FGt(variance, Zero) THEN PySqrt(variance) ELSE FInt(1)]

\* the updates add the gradient instead of subtracting it
GradientStep_Ascent(m, X_norm, y, learning_rate) ==
    LET predictions == [i \in 1..Len(X_norm) |-> FAdd(m.bias, Dot(m.weights, X_norm[i]))]
        errors      == [i \in 1..Len(y) |-> FSub(y[i], predictions[i])]
        gradient(j) == FDiv(FMul(FInt(-2),
                                 FSum([i \in 1..Len(X_norm) |->
                                          FMul(errors[i], X_norm[i][j])])),
                            FInt(Len(X_norm)))
        bias_gradient == FDiv(FMul(FInt(-2), FSum(errors)), FInt(Len(errors)))
    IN  [m EXCEPT !.weights = [j \in 1..Len(m.weights) |->
                                  FAdd(m.weights[j], FMul(learning_rate, gradient(j)))],
                  !.bias    = FAdd(m.bias, FMul(learning_rate, bias_gradient))]

\* lines 76-93: one iteration of batch gradient descent
GradientStep(m, X_norm, y, learning_rate) ==
    LET predictions == [i \in 1..Len(X_norm) |-> FAdd(m.bias, Dot(m.weights, X_norm[i]))]
        errors      == [i \in 1..Len(y) |-> FSub(y[i], predictions[i])]
        gradient(j) == FDiv(FMul(FInt(-2),
                                 FSum([i \in 1..Len(X_norm) |->
                                          FMul(errors[i], X_norm[i][j])])),
                            FInt(Len(X_norm)))
        bias_gradient == FDiv(FMul(FInt(-2), FSum(errors)), FInt(Len(errors)))
    IN  [m EXCEPT !.weights = [j \in 1..Len(m.weights) |->
                                  FSub(m.weights[j], FMul(learning_rate, gradient(j)))],
                  !.bias    = FSub(m.bias, FMul(learning_rate, bias_gradient))]

RECURSIVE GradientDescent(_, _, _, _, _)
GradientDescent(m, X_norm, y, learning_rate, iterations) ==
    IF iterations = 0 THEN m
    ELSE GradientDescent(GradientStep(m, X_norm, y, learning_rate),
                         X_norm, y, learning_rate, iterations - 1)

\* LinearRegression.fit(X, y, learning_rate, iterations), X not empty
LinearFit(X, y, learning_rate, iterations) ==
    LET mean_x == FitMean(X)
        std_x  == FitStd(X)
        X_norm == [i \in 1..Len(X) |-> Standardize(X[i], mean_x, std_x)]
        m0     == [weights |-> [j \in 1..Len(X[1]) |-> Zero], bias |-> Zero,
                   mean_x |-> mean_x, std_x |-> std_x]
    IN  GradientDescent(m0, X_norm, y, learning_rate, iterations)

\* LinearRegression.predict(X)[i]: the prediction for one feature vector
LinearPredictOne(m, x) ==
    PyMax0(FAdd(m.bias, Dot(m.weights, Standardize(x, m.mean_x, m.std_x))))

\* LinearRegression.predict(X)
LinearPredict(m, X) == [i \in 1..Len(X) |-> LinearPredictOne(m, X[i])]


(***************************************************************************)
(* simple_train.py: class SimpleDecisionTree.  A node is a dict: a leaf    *)
(* {'value'}, or {'feature', 'split', 'left', 'right'}; features are       *)
(* numbered from 1.                                                        *)
(***************************************************************************)

\* sorted(S) for a set of finite numbers
RECURSIVE Sorted(_)
Sorted(S) ==
    IF S = {} THEN <<>>
    ELSE LET lo == CHOOSE v \in S : \A w \in S : ~FGt(v, w)
         IN  <<lo>> \o Sorted(S \ {lo})

\* [s[i] for i in range(len(s)) if keep(i)]
RECURSIVE SelectIdx(_, _, _)
SelectIdx(s, keep(_), i) ==
    IF i > Len(s) THEN <<>>
    ELSE (IF keep(i) THEN <<s[i]>> ELSE <<>>) \o SelectIdx(s, keep, i + 1)

\* _calculate_gain: variance
TreeVariance(values) ==
    IF Len(values) = 0 THEN Zero
    ELSE LET mean == Mean(values)
         IN  Mean([i \in 1..Len(values) |->
                      FMul(FSub(values[i], mean), FSub(values[i], mean))])

\* _calculate_gain(y, left_y, right_y)
CalculateGain(y, left_y, right_y) ==
    FSub(TreeVariance(y),
         FDiv(FAdd(FMul(FInt(Len(left_y)), TreeVariance(left_y)),
                   FMul(FInt(Len(right_y)), TreeVariance(right_y))),
              FInt(Len(y))))

\* lines 32-46: every (feature, split) pair in the order the loops visit them
SplitCandidates(X) ==
    LET perFeature(j) ==
            LET values == Sorted({X[i][j] : i \in 1..Len(X)})
            IN  [h \in 1..Len(values) |-> [feature |-> j, split |-> values[h]]]
        RECURSIVE upTo(_)
        upTo(j) == IF j = 0 THEN <<>> ELSE upTo(j - 1) \o perFeature(j)
    IN  upTo(Len(X[1]))

\* lines 28-46: the best split after the candidates c[1..n]; feature 0 is None
RECURSIVE BestSplit(_, _, _, _)
\* a candidate replaces the best one when its gain is as large
BestSplit_LastTie(X, y, c, n) ==
    IF n = 0 THEN [gain |-> Zero, feature |-> 0, split |-> Zero]
    ELSE LET best    == BestSplit(X, y, c, n - 1)
             left_y  == SelectIdx(y, LAMBDA i : FLe(X[i][c[n].feature], c[n].split), 1)
             right_y == SelectIdx(y, LAMBDA i : FGt(X[i][c[n].feature], c[n].split), 1)
         IN  IF Len(left_y) = 0 \/ Len(right_y) = 0 THEN best
             ELSE LET gain == CalculateGain(y, left_y, right_y)
                  IN  IF FGe(gain, best.gain)
                      THEN [gain |-> gain, feature |-> c[n].feature, split |-> c[n].split]
                      ELSE best

BestSplit(X, y, c, n) ==
    IF n = 0 THEN [gain |-> Zero, feature |-> 0, split |-> Zero]
    ELSE LET best    == BestSplit(X, y, c, n - 1)
             left_y  == SelectIdx(y, LAMBDA i : FLe(X[i][c[n].feature], c[n].split), 1)
             right_y == SelectIdx(y, LAMBDA i : FGt(X[i][c[n].feature], c[n].split), 1)
         IN  IF Len(left_y) = 0 \/ Len(right_y) = 0 THEN best
             ELSE LET gain == CalculateGain(y, left_y, right_y)
                  IN  IF FGt(gain, best.gain)
                      THEN [gain |-> gain, feature |-> c[n].feature, split |-> c[n].split]
                      ELSE best

\* lines 28-46 for all the candidates
BestSplitOf(X, y, c) == BestSplit(X, y, c, Len(c))

RECURSIVE BuildTree(_, _, _, _, _)
\* lines 48-64 of _build_tree: the node for the best split found
BuildNode(X, y, depth, max_depth, min_samples_split, best) ==
    IF best.feature = 0 THEN [value |-> Mean(y)]
    ELSE LET inLeft(i)  == FLe(X[i][best.feature], best.split)
             inRight(i) == FGt(X[i][best.feature], best.split)
         IN  [feature |-> best.feature,
              split   |-> best.split,
              left    |-> BuildTree(SelectIdx(X, inLeft, 1), SelectIdx(y, inLeft, 1),
                                    depth + 1, max_depth, min_samples_split),
              right   |-> BuildTree(SelectIdx(X, inRight, 1), SelectIdx(y, inRight, 1),
                                    depth + 1, max_depth, min_samples_split)]

\* the depth test admits one level more
BuildTree_DepthOffByOne(X, y, depth, max_depth, min_samples_split) ==
    IF depth > max_depth \/ Len(y) < min_samples_split
    THEN [value |-> Mean(y)]
    ELSE BuildNode(X, y, depth, max_depth, min_samples_split,
                   BestSplitOf(X, y, SplitCandidates(X)))

\* _build_tree(X, y, depth), y not empty
BuildTree(X, y, depth, max_depth, min_samples_split) ==
    IF depth >= max_depth \/ Len(y) < min_samples_split
    THEN [value |-> Mean(y)]
    ELSE BuildNode(X, y, depth, max_depth, min_samples_split,
                   BestSplitOf(X, y, SplitCandidates(X)))

\* _traverse_tree(x, node)
RECURSIVE TraverseTree(_, _)
\* the traversal goes left only below the split value
TraverseTree_Strict(x, node) ==
    IF "value" \in DOMAIN node THEN node.value
    ELSE IF FGt(node.split, x[node.feature]) THEN TraverseTree(x, node.left)
    ELSE TraverseTree(x, node.right)

TraverseTree(x, node) ==
    IF "value" \in DOMAIN node THEN node.value
    ELSE IF FLe(x[node.feature], node.split) THEN TraverseTree(x, node.left)
    ELSE TraverseTree(x, node.right)

\* SimpleDecisionTree.__init__: min_samples_split=2
MinSamplesSplit == 2

\* the prediction of the first tree stands for the forest's
ForestPredictOne_FirstTree(trees, x) == TraverseTree(x, trees[1])

\* SimpleRandomForest.predict(X)[i]: the mean of the trees' predictions
ForestPredictOne(trees, x) == Mean([t \in 1..Len(trees) |-> TraverseTree(x, trees[t])])

ForestPredict(trees, X) == [i \in 1..Len(X) |-> ForestPredictOne(trees, X[i])]


(***************************************************************************)
(* The training input data/flight_prices.csv: the rows csv.DictReader      *)
(* yields, each a dict from the header's column names to the cells.        *)
(* Category cells are strings; number and timestamp cells are character    *)
(* sequences.                                                              *)
(***************************************************************************)
Row(airline, source, dest, class, stops, dep, arr, duration, days_left, price) ==
    [airline |-> airline, source_city |-> source, destination_city |-> dest,
     class |-> class, stops |-> stops, departure_time |-> dep, arrival_time |-> arr,
     duration |-> duration, days_left |-> days_left, price |-> price]

\* the same row under a header that names the columns destinatin and duratin
Misspelt(r) ==
    [k \in (DOMAIN r \ {"destination_city", "duration"}) \cup {"destinatin", "duratin"} |->
        IF k = "destinatin" THEN r["destination_city"]
        ELSE IF k = "duratin" THEN r["duration"]
        ELSE r[k]]

T_1000 == <<"2", "0", "2", "6", "-", "0", "2", "-", "2", "0", " ", "1", "0", ":", "0", "0">>

T_1230 == <<"2", "0", "2", "6", "-", "0", "2", "-", "2", "0", " ", "1", "2", ":", "3", "0">>

T_0715Z == <<"2", "0", "2", "6", "-", "0", "2", "-", "2", "0", "T", "0", "7", ":", "1", "5", "Z">>

T_Bare == <<"1", "0", ":", "0", "0">>

T_Garbage == <<"g", "a", "r", "b", "a", "g", "e">>

RowIndiGo ==
    Row("IndiGo", "Mumbai", "Delhi", "Business", <<"0">>, T_1000, T_1230, <<"3">>, <<"5">>, <<"8">>)

RowAirIndia ==
    Row("Air India", "Delhi", "Mumbai", "Economy", <<"1">>, T_0715Z, T_Bare, <<"2">>, <<"1">>, <<"4">>)

\* a malformed record: stops is no number; its airline occurs in no other row
RowBadStops ==
    Row("Vistara", "Mumbai", "Pune", "Economy", <<"a", "b", "c">>, T_1000, T_Garbage,
        <<"2">>, <<"3">>, <<"6">>)

\* a row one cell shorter than the header: DictReader fills price with None
RowShort ==
    Row("IndiGo", "Delhi", "Mumbai", "Economy", <<"1">>, T_1000, T_1230, <<"2">>, <<"1">>, NoneCell)

TrainRows == {RowIndiGo, RowAirIndia, RowBadStops, RowShort}

MaxRecords == 2

RECURSIVE SeqsUpTo(_, _)
SeqsUpTo(S, n) ==
    IF n = 0 THEN {<<>>}
    ELSE LET shorter == SeqsUpTo(S, n - 1)
         IN  shorter \cup {Append(q, e) : q \in {p \in shorter : Len(p) = n - 1}, e \in S}

\* the csv files: up to MaxRecords rows, under either header
CsvFiles ==
    LET plain == SeqsUpTo(TrainRows, MaxRecords)
    IN  plain \cup {[i \in 1..Len(d) |-> Misspelt(d[i])] : d \in plain}


(***************************************************************************)
(* json.dump / json.load of the model artifact.  The file's text is the    *)
(* JSON object: a function from the member names to JSON values, each      *)
(* tagged with its JSON type.  An int is written without a fraction and    *)
(* read back as an int; a float is written with one and read as a float.   *)
(***************************************************************************)
JInt(i) == [t |-> "int", v |-> i]

JFloat(f) == [t |-> "float", v |-> f]

JStr(str) == [t |-> "string", v |-> str]

JArr(items) == [t |-> "array", v |-> items]

JObj(members) == [t |-> "object", v |-> members]

MapKeys == {"airline_map", "source_map", "dest_map", "class_map"}

\* json.dump of one member of model_data: a list of floats, a float, a dict
\* from str to int, a list of str, or an int
JsonOfMember(key, value) ==
    CASE key \in {"weights", "mean_x", "std_x"} ->
            JArr([i \in 1..Len(value) |-> JFloat(value[i])])
      [] key \in {"bias", "mae", "rmse", "avg_price"} -> JFloat(value)
      [] key \in MapKeys -> JObj([c \in DOMAIN value |-> JInt(value[c])])
      [] key = "feature_names" -> JArr([i \in 1..Len(value) |-> JStr(value[i])])
      [] key = "trees_count" -> JInt(value)

JsonDump(model_data) == [key \in DOMAIN model_data |-> JsonOfMember(key, model_data[key])]

\* json.load of one value
JsonValue(j) ==
    CASE j.t \in {"int", "float", "string"} -> j.v
      [] j.t = "array" -> [i \in 1..Len(j.v) |-> j.v[i].v]
      [] j.t = "object" -> [c \in DOMAIN j.v |-> j.v[c].v]

JsonLoad(text) == [key \in DOMAIN text |-> JsonValue(text[key])]

(***************************************************************************)
(* api.py, api_simple.py: predict_price.  The result is the pair the       *)
(* function returns and MODEL_DATA as the call leaves it.                  *)
(***************************************************************************)

\* str(e) for the exceptions predict_price catches
ExcMessage(e) ==
    CASE e = "ValueError" -> "could not convert string to float"
      [] e = "KeyError" -> "missing key"
      [] e = "IndexError" -> "list index out of range"
      [] e = "ZeroDivisionError" -> "float division by zero"
      [] OTHER -> e

CategoryMissMessage == "Unknown airline, city, or class"

\* lines 62-64: any(f == -1 for f in features)
AnyMinusOne(features) == \E i \in 1..Len(features) : FEq(features[i], FInt(-1))

\* lines 66-76: the exception the normalisation and the dot product raise
InferenceExc(md, features) ==
    IF {"mean_x", "std_x"} \ DOMAIN md # {} THEN "KeyError"
    ELSE IF Len(md.mean_x) < Len(features) \/ Len(md.std_x) < Len(features)
         THEN "IndexError"
    ELSE IF \E i \in 1..Len(features) : IsZero(md.std_x[i]) THEN "ZeroDivisionError"
    ELSE IF {"bias", "weights"} \ DOMAIN md # {} THEN "KeyError"
    ELSE IF Len(md.weights) < Len(features) THEN "IndexError"
    ELSE "None"

\* lines 66-76: normalise, bias + the dot product
RawPrediction(md, features) ==
    FAdd(md.bias, Dot(md.weights, Standardize(features, md.mean_x, md.std_x)))

\* lines 66-79: normalise, predict, max(0, prediction)
Inference(md, features) == PyMax0(RawPrediction(md, features))

Return(price, error, md) == [price |-> price, error |-> error, model_data |-> md]

\* lines 62-83: predict_price from the feature list on; st is the state the
\* feature list left: MODEL_DATA, the features, the exception raised
PredictReturn(st) ==
    IF st.exc # "None" THEN Return(PyNone, ExcMessage(st.exc), st.maps)
    ELSE IF AnyMinusOne(st.vals) THEN Return(PyNone, CategoryMissMessage, st.maps)
    ELSE LET e == InferenceExc(st.maps, st.vals)
         IN  IF e # "None" THEN Return(PyNone, ExcMessage(e), st.maps)
             ELSE Return(Inference(st.maps, st.vals), "None", st.maps)

\* predict_price(flight_data) with the module's MODEL_DATA = md
PredictPrice(flight_data, md) == PredictReturn(Encode(ServeSteps, flight_data, md))

\* round(x, 2): to the nearest hundredth, a tie to the even one
Round2(f) ==
    IF f.k # "fin" THEN f
    ELSE LET a   == Abs(f.n)
             q   == (a \div f.d) * 100 + ((a % f.d) * 100) \div f.d
             rem == ((a % f.d) * 100) % f.d
             r   == IF 2 * rem > f.d \/ (2 * rem = f.d /\ q % 2 = 1) THEN q + 1 ELSE q
         IN  Fin(Sign(f.n) * r, 100)

\* int(float(flight_data.get(key, 0)))
IntOfField(flight_data, key) ==
    IF key \notin DOMAIN flight_data THEN Ok(0)
    ELSE LET f == PyFloatOfStr(flight_data[key])
         IN  IF f.ok THEN PyIntOfFloat(f.v) ELSE f

NoBody == [status |-> "none"]

\* the /predict branch of do_GET (api.py) and of run_server's loop
\* (api_simple.py), after flight_data is parsed: the status sent, the body,
\* and the exception that escapes the branch
PredictResponse(flight_data, ret) ==
    IF ret.price # PyNone
    THEN LET stops     == IntOfField(flight_data, "stops")
             days_left == IntOfField(flight_data, "days_left")
         IN  IF ~stops.ok THEN [status |-> 200, body |-> NoBody, exc |-> stops.exc]
             ELSE IF ~days_left.ok
                  THEN [status |-> 200, body |-> NoBody, exc |-> days_left.exc]
             ELSE [status |-> 200,
                   body |-> [status |-> "success",
                             predicted_price |-> Round2(ret.price),
                             currency |-> "USD",
                             input |-> [airline   |-> DictGet(flight_data, "airline", "None"),
                                        route     |-> <<DictGet(flight_data, "source_city", "None"),
                                                        DictGet(flight_data, "destinatin", "None")>>,
                                        class     |-> DictGet(flight_data, "class", "None"),
                                        stops     |-> stops.v,
                                        days_left |-> days_left.v]],
                   exc |-> "None"]
    ELSE [status |-> 400, body |-> [status |-> "error", error |-> ret.error], exc |-> "None"]

(***************************************************************************)
(* train_model of train_simple.py and of simple_train.py, as functions of  *)
(* the rows.                                                               *)
(***************************************************************************)

\* the exceptions the loop's except clause catches
Skipped == {"ValueError", "KeyError"}

\* the body of the loop for one record, its feature list evaluated to st:
\* acc is [maps, X, y, exc]; exc is the exception that leaves the loop
TakeEncoded(st, acc) ==
    IF st.exc = "None"
    THEN [acc EXCEPT !.maps = st.maps,
                     !.X = Append(@, SubSeq(st.vals, 1, 9)),
                     !.y = Append(@, st.vals[10])]
    ELSE IF st.exc \in Skipped THEN [acc EXCEPT !.maps = st.maps]
    ELSE [acc EXCEPT !.maps = st.maps, !.exc = st.exc]

TakeRecord(steps, record, acc) == TakeEncoded(Encode(steps, record, acc.maps), acc)

\* the next iteration, unless an exception has left the loop
TakeNext(steps, record, acc) ==
    IF acc.exc # "None" THEN acc ELSE TakeRecord(steps, record, acc)

\* the loop over rows[1..n]
RECURSIVE EncodeRows(_, _, _)
EncodeRows(steps, rows, n) ==
    IF n = 0 THEN [maps |-> [airline_map |-> EmptyDict, source_map |-> EmptyDict,
                             dest_map |-> EmptyDict, class_map |-> EmptyDict],
                   X |-> <<>>, y |-> <<>>, exc |-> "None"]
    ELSE TakeNext(steps, rows[n], EncodeRows(steps, rows, n - 1))

\* train_simple.py lines 171-174: predictions, mae and rmse on the training set
LinearMetrics(m, X, y) ==
    LET predictions == LinearPredict(m, X)
        errors == [i \in 1..Len(y) |-> FAbs(FSub(predictions[i], y[i]))]
    IN  [predictions |-> predictions,
         mae  |-> Mean(errors),
         rmse |-> PySqrt(Mean([i \in 1..Len(errors) |-> FMul(errors[i], errors[i])]))]

\* simple_train.py lines 190-191: predictions and mae on the training set
ForestMetrics(trees, X, y) ==
    LET predictions == ForestPredict(trees, X)
    IN  [predictions |-> predictions,
         mae  |-> Mean([i \in 1..Len(y) |-> FAbs(FSub(predictions[i], y[i]))]),
         rmse |-> PyNone]

\* SimpleRandomForest.fit lines 104-109: the tree fitted on the bootstrap
\* sample that the drawn indices select
BootstrapTree(X, y, indices, max_depth) ==
    BuildTree([i \in 1..Len(X) |-> X[indices[i]]], [i \in 1..Len(X) |-> y[indices[i]]],
              0, max_depth, MinSamplesSplit)

(***************************************************************************)
(* State.                                                                  *)
(***************************************************************************)
VARIABLES
    csvFile,      \* data/flight_prices.csv: the rows
    modelFile,    \* models/price_model.json: [kind, text]
    prog,         \* the program that runs: "none" before any is started
    pc,           \* its position
    exc,          \* the class of the exception that ended it, else "None"
    data,         \* train_model: the rows load_csv returned
    idx,          \* train_model: the number of rows the loop has taken
    X,            \* train_model: the feature vectors kept
    y,            \* train_model: their prices
    maps,         \* train_model: airline_map, source_map, dest_map, class_map
    model,        \* train_model: the LinearRegression / SimpleRandomForest
    metrics,      \* train_model: mae, rmse of the evaluation
    MODEL_DATA,   \* api.py, api_simple.py: the artifact json.load returned
    request,      \* the server's latest request: [path, flight_data]
    response,     \* what the server sent for it: [status, body]
    result,       \* api.py, api_simple.py: price, error = predict_price(flight_data)
    calls,        \* the calls of predict_price in progress, one per thread
    pklFiles,     \* models/*.pkl, the four files train.py dumps
    MODEL_LOADED, \* app.py: the flag the module's top level sets
    encoders,     \* app.py: the LabelEncoders joblib.load returned
    feature_cols, \* app.py: the columns the model was fitted on
    frame,        \* a function called on its own: its name, arguments, locals
    retval        \* the value the function returned, None before it returns

trainVars == <<data, idx, X, y, maps, model, metrics>>

serveVars == <<MODEL_DATA, request, response, result, calls>>

appVars == <<pklFiles, MODEL_LOADED, encoders, feature_cols>>

unitVars == <<frame, retval>>

vars == <<csvFile, modelFile, prog, pc, exc, data, idx, X, y, maps, model, metrics,
          MODEL_DATA, request, response, result, calls,
          pklFiles, MODEL_LOADED, encoders, feature_cols, frame, retval>>

\* train_simple.py:168: model.fit(X, y, learning_rate=0.01, iterations=100)
LearningRate == Fin(1, 100)

\* the number of gradient-descent iterations the model runs (the source: 100)
Iterations == 2

\* the number of trees the model fits (simple_train.py:186: n_trees=10)
NTrees == 2

\* simple_train.py:186: max_depth=8
MaxDepth == 8

EmptyMaps ==
    [airline_map |-> EmptyDict, source_map |-> EmptyDict,
     dest_map |-> EmptyDict, class_map |-> EmptyDict]

NoModel == [class |-> "None"]

NoMetrics == [predictions |-> <<>>, mae |-> PyNone, rmse |-> PyNone]

FileMissing == [kind |-> "missing", text |-> EmptyDict]

FileCorrupt == [kind |-> "corrupt", text |-> EmptyDict]

Trainers == {"train_simple", "simple_train"}

\* the locals of a train_model that has not run
TrainIdle ==
    /\ data = <<>> /\ idx = 0 /\ X = <<>> /\ y = <<>>
    /\ maps = EmptyMaps /\ model = NoModel /\ metrics = NoMetrics

NoRequest == [path |-> "none", flight_data |-> EmptyDict]

NoResponse == [status |-> 0, body |-> NoBody]

NoResult == [price |-> PyNone, error |-> "None"]

\* the globals of a server that has not run
ServeIdle ==
    /\ MODEL_DATA = EmptyDict /\ request = NoRequest /\ response = NoResponse
    /\ result = NoResult /\ calls = <<>>

PklMissing == [kind |-> "missing"]

\* the globals of an app.py that has not run
AppIdle == MODEL_LOADED = FALSE /\ encoders = EmptyDict /\ feature_cols = {}

NoFrame == [fn |-> "none"]

\* no function is called on its own
UnitIdle == frame = NoFrame /\ retval = PyNone

InitTrain ==
    /\ csvFile \in CsvFiles
    /\ modelFile \in {FileMissing, FileCorrupt}
    /\ prog = "none" /\ pc = "none" /\ exc = "None"
    /\ TrainIdle
    /\ ServeIdle
    /\ pklFiles = PklMissing /\ AppIdle
    /\ UnitIdle

\* python train_simple.py / python simple_train.py, the csv file exists
StartTrainer(p) ==
    /\ prog = "none"
    /\ prog' = p /\ pc' = "load"
    /\ UNCHANGED <<unitVars, csvFile, modelFile, exc, trainVars, serveVars, appVars>>

\* train_model, up to the loop: load_csv, the empty X, y and category maps
LoadCsv ==
    /\ prog \in Trainers /\ pc = "load"
    /\ data' = csvFile
    /\ idx' = 0 /\ X' = <<>> /\ y' = <<>> /\ maps' = EmptyMaps
    /\ pc' = "loop"
    /\ UNCHANGED <<unitVars, csvFile, modelFile, prog, exc, model, metrics, serveVars, appVars>>

\* one iteration of train_model's loop over the rows
TrainRecord(steps) ==
    /\ pc = "loop" /\ idx < Len(data)
    /\ \E acc \in {TakeRecord(steps, data[idx + 1],
                                [maps |-> maps, X |-> X, y |-> y, exc |-> "None"])} :
           /\ maps' = acc.maps /\ X' = acc.X /\ y' = acc.y
           /\ idx' = idx + 1
           /\ IF acc.exc = "None" THEN UNCHANGED <<pc, exc>>
              ELSE pc' = "crashed" /\ exc' = acc.exc
    /\ UNCHANGED <<unitVars, csvFile, modelFile, prog, data, model, metrics, serveVars, appVars>>

LinearTrainRecord == prog = "train_simple" /\ TrainRecord(LinearTrainSteps)

ForestTrainRecord == prog = "simple_train" /\ TrainRecord(ForestTrainSteps)

\* the prints left out: nothing is computed from y before the fit
PriceStats_Unguarded(prices) == "None"

\* the exception of min(y), max(y), sum(y)/len(y) in the prints after the
\* loop: min() of an empty list raises ValueError
PriceStats(prices) == IF Len(prices) = 0 THEN "ValueError" ELSE "None"

\* after the loop: the prints of min(y), max(y), sum(y)/len(y)
TrainStats ==
    /\ prog \in Trainers /\ pc = "loop" /\ idx = Len(data)
    /\ IF PriceStats(y) # "None"
       THEN pc' = "crashed" /\ exc' = PriceStats(y)
       ELSE pc' = "fit" /\ exc' = exc
    /\ UNCHANGED <<unitVars, csvFile, modelFile, prog, trainVars, serveVars, appVars>>

\* train_simple.py: model = LinearRegression(); model.fit(...)
LinearTrainFit ==
    /\ prog = "train_simple" /\ pc = "fit"
    /\ model' = LinearFit(X, y, LearningRate, Iterations)
    /\ pc' = "evaluate"
    /\ UNCHANGED <<unitVars, csvFile, modelFile, prog, exc, data, idx, X, y, maps, metrics, serveVars, appVars>>

\* train_simple.py lines 171-174: predictions, mae, rmse
LinearTrainEvaluate ==
    /\ prog = "train_simple" /\ pc = "evaluate"
    /\ metrics' = LinearMetrics(model, X, y)
    /\ pc' = "save"
    /\ UNCHANGED <<unitVars, csvFile, modelFile, prog, exc, data, idx, X, y, maps, model, serveVars, appVars>>

\* train_simple.py line 193
FeatureNames ==
    <<"airline", "source_city", "stops", "departure_hour", "arrival_hour",
      "destination", "class", "duration", "days_left">>

\* train_simple.py lines 181-194: model_data
LinearModelData(m, mp, mt, prices) ==
    [weights |-> m.weights, bias |-> m.bias, mean_x |-> m.mean_x, std_x |-> m.std_x,
     airline_map |-> mp.airline_map, source_map |-> mp.source_map,
     dest_map |-> mp.dest_map, class_map |-> mp.class_map,
     mae |-> mt.mae, rmse |-> mt.rmse, avg_price |-> Mean(prices),
     feature_names |-> FeatureNames]

\* simple_train.py lines 197-205: model_data
ForestModelData(m, mp, mt, prices) ==
    [trees_count |-> Len(m.trees),
     airline_map |-> mp.airline_map, source_map |-> mp.source_map,
     dest_map |-> mp.dest_map, class_map |-> mp.class_map,
     mae |-> mt.mae, avg_price |-> Mean(prices)]

\* train_simple.py lines 196-201: json.dump(model_data) to price_model.json
LinearTrainSave ==
    /\ prog = "train_simple" /\ pc = "save"
    /\ modelFile' = [kind |-> "json", text |-> JsonDump(LinearModelData(model, maps, metrics, y))]
    /\ pc' = "done"
    /\ UNCHANGED <<unitVars, csvFile, prog, exc, trainVars, serveVars, appVars>>

\* simple_train.py line 186: model = SimpleRandomForest(n_trees, max_depth=8);
\* fitted counts the iterations of fit's loop
ForestCreate ==
    /\ prog = "simple_train" /\ pc = "fit"
    /\ model' = [class |-> "SimpleRandomForest", n_trees |-> NTrees, max_depth |-> MaxDepth,
                 trees |-> <<>>, fitted |-> 0]
    /\ pc' = "fit_loop"
    /\ UNCHANGED <<unitVars, csvFile, modelFile, prog, exc, data, idx, X, y, maps, metrics, serveVars, appVars>>

\* SimpleRandomForest.fit: one iteration: a bootstrap sample, a tree fitted on it
ForestFitTree ==
    /\ prog = "simple_train" /\ pc = "fit_loop" /\ model.fitted < model.n_trees
    /\ \E indices \in [1..Len(X) -> 1..Len(X)] :
          model' = [model EXCEPT !.trees = Append(@, BootstrapTree(X, y, indices, model.max_depth)),
                                 !.fitted = @ + 1]
    /\ UNCHANGED <<unitVars, csvFile, modelFile, prog, pc, exc, data, idx, X, y, maps, metrics, serveVars, appVars>>

\* simple_train.py lines 190-191: predictions and mae, once fit has returned
ForestTrainEvaluate ==
    /\ prog = "simple_train" /\ pc = "fit_loop" /\ model.fitted = model.n_trees
    /\ metrics' = ForestMetrics(model.trees, X, y)
    /\ pc' = "save"
    /\ UNCHANGED <<unitVars, csvFile, modelFile, prog, exc, data, idx, X, y, maps, model, serveVars, appVars>>

\* simple_train.py lines 207-211: json.dump(model_data) to price_model.json
ForestTrainSave ==
    /\ prog = "simple_train" /\ pc = "save"
    /\ modelFile' = [kind |-> "json", text |-> JsonDump(ForestModelData(model, maps, metrics, y))]
    /\ pc' = "done"
    /\ UNCHANGED <<unitVars, csvFile, prog, exc, trainVars, serveVars, appVars>>

(***************************************************************************)
(* Serving: api.py and api_simple.py.                                      *)
(***************************************************************************)

\* the artifact train_simple.py writes for the rows of a csv file
LinearSaved(m, e) ==
    [kind |-> "json",
     text |-> JsonDump(LinearModelData(m, e.maps, LinearMetrics(m, e.X, e.y), e.y))]

LinearFitted(e) == LinearSaved(LinearFit(e.X, e.y, LearningRate, Iterations), e)

LinearArtifact(rows) == LinearFitted(EncodeRows(LinearTrainSteps, rows, Len(rows)))

\* the artifacts simple_train.py may write for the rows of a csv file: one
\* for every choice of the bootstrap indices
ForestSaved(trees, e) ==
    [kind |-> "json",
     text |-> JsonDump(ForestModelData([trees |-> trees], e.maps,
                                       ForestMetrics(trees, e.X, e.y), e.y))]

ForestFitted(e) ==
    {ForestSaved([t \in 1..NTrees |-> BootstrapTree(e.X, e.y, draw[t], MaxDepth)], e) :
     draw \in [1..NTrees -> [1..Len(e.X) -> 1..Len(e.X)]]}

ForestArtifacts(rows) == ForestFitted(EncodeRows(ForestTrainSteps, rows, Len(rows)))

\* train_model runs to its end on these rows: no exception leaves the loop
\* and a record is kept
Trainable(steps, rows) ==
    \E e \in {EncodeRows(steps, rows, Len(rows))} : e.exc = "None" /\ Len(e.y) > 0

\* the states of models/price_model.json a server may find: no file, a file
\* that is no JSON, or the file a trainer wrote
ServeFiles ==
    {FileMissing, FileCorrupt}
    \cup {LinearArtifact(rows) : rows \in {d \in CsvFiles : Trainable(LinearTrainSteps, d)}}
    \cup UNION {ForestArtifacts(rows) : rows \in {d \in CsvFiles : Trainable(ForestTrainSteps, d)}}

\* the request of the example in api.py line 180
BaseFlight ==
    [airline |-> "IndiGo", source_city |-> "Mumbai", stops |-> <<"0">>,
     departure_time |-> T_1000, arrival_time |-> T_1230, destinatin |-> "Delhi",
     class |-> "Business", duratin |-> <<"1", "5", "0">>, days_left |-> <<"5">>]

FlightKeys ==
    <<"airline", "source_city", "stops", "departure_time", "arrival_time", "destinatin",
      "destination_city", "class", "duratin", "duration", "days_left">>

\* the other values a request may carry under a key
Alternatives(key) ==
    CASE key = "airline" -> {"Air India", "UnknownCarrier"}
      [] key = "source_city" -> {"Delhi", "Atlantis"}
      [] key = "destinatin" -> {"Mumbai", "Atlantis"}
      [] key = "destination_city" -> {"Delhi"}
      [] key = "class" -> {"Economy", "First"}
      [] key = "stops" -> {<<"9">>, <<"-", "1">>, <<"n", "a", "n">>, <<"a", "b", "c">>}
      [] key = "departure_time" -> {T_Bare, T_Garbage, <<"x", " ", "-", "1", ":", "0", "0">>}
      [] key = "arrival_time" -> {T_0715Z}
      [] key = "duratin" -> {<<"2">>, <<"i", "n", "f">>}
      [] key = "duration" -> {<<"1", "5", "0">>}
      [] key = "days_left" -> {<<"1">>, <<"-", "1">>, <<"i", "n", "f">>}

\* del d[key]
DictDel(d, key) == [k \in DOMAIN d \ {key} |-> d[k]]

\* the number of keys in which a request may differ from BaseFlight
MaxEdits == 2

\* the requests that differ from d in at most edits of the keys FlightKeys[i..]
RECURSIVE FlightsFrom(_, _, _)
FlightsFrom(i, d, edits) ==
    IF i > Len(FlightKeys) THEN {d}
    ELSE LET key == FlightKeys[i]
         IN  FlightsFrom(i + 1, d, edits)
             \cup (IF edits = 0 THEN {}
                   ELSE UNION {FlightsFrom(i + 1, DictSet(d, key, v), edits - 1) :
                               v \in Alternatives(key)}
                        \cup (IF key \in DOMAIN d
                              THEN FlightsFrom(i + 1, DictDel(d, key), edits - 1)
                              ELSE {}))

Flights == FlightsFrom(1, BaseFlight, MaxEdits)

Servers == {"api", "api_simple"}

InitServe ==
    /\ csvFile = <<>>
    /\ modelFile \in ServeFiles
    /\ prog = "none" /\ pc = "none" /\ exc = "None"
    /\ TrainIdle
    /\ ServeIdle
    /\ pklFiles = PklMissing /\ AppIdle
    /\ UnitIdle

\* python api.py / python api_simple.py
StartServer(p) ==
    /\ prog = "none"
    /\ prog' = p /\ pc' = "import"
    /\ UNCHANGED <<unitVars, csvFile, modelFile, exc, trainVars, serveVars, appVars>>

\* the module's top level, lines 14-26, then run_server: exit(1) without the
\* file; json.load raises on a file that is no JSON; the two prints raise
\* KeyError on an artifact without mae or rmse
ApiImport ==
    /\ prog \in Servers /\ pc = "import"
    /\ IF modelFile.kind = "missing"
       THEN pc' = "exited" /\ exc' = "SystemExit" /\ UNCHANGED MODEL_DATA
       ELSE IF modelFile.kind = "corrupt"
       THEN pc' = "crashed" /\ exc' = "JSONDecodeError" /\ UNCHANGED MODEL_DATA
       ELSE /\ MODEL_DATA' = JsonLoad(modelFile.text)
            /\ IF {"mae", "rmse"} \subseteq DOMAIN modelFile.text
               THEN pc' = "serving" /\ exc' = exc
               ELSE pc' = "crashed" /\ exc' = "KeyError"
    /\ UNCHANGED <<unitVars, csvFile, modelFile, prog, trainVars, request, response, result, calls, appVars>>

\* the server is in accept(): the request before, if any, is done with
Accepting == pc = "serving" /\ request = NoRequest

\* GET /health
ApiHealth ==
    /\ prog \in Servers /\ Accepting
    /\ request' = [path |-> "/health", flight_data |-> EmptyDict]
    /\ response' = [status |-> 200, body |-> [status |-> "healthy", model_loaded |-> TRUE]]
    /\ UNCHANGED <<unitVars, csvFile, modelFile, prog, pc, exc, trainVars, MODEL_DATA, result, calls, appVars>>

\* GET /predict?...: api.py has sent the status line when the exception of
\* the success branch escapes do_GET, and socketserver goes on serving;
\* in api_simple.py it leaves run_server's loop before anything is sent
ApiPredict(flight_data) ==
    /\ prog \in Servers /\ Accepting
    /\ \E ret \in {PredictPrice(flight_data, MODEL_DATA)} :
       \E r \in {PredictResponse(flight_data, ret)} :
           /\ MODEL_DATA' = ret.model_data
           /\ result' = [price |-> ret.price, error |-> ret.error]
           /\ request' = [path |-> "/predict", flight_data |-> flight_data]
           /\ IF r.exc = "None"
              THEN response' = [status |-> r.status, body |-> r.body] /\ UNCHANGED <<pc, exc>>
              ELSE IF prog = "api"
              THEN response' = [status |-> r.status, body |-> NoBody] /\ UNCHANGED <<pc, exc>>
              ELSE response' = NoResponse /\ pc' = "crashed" /\ exc' = r.exc
    /\ UNCHANGED <<unitVars, csvFile, modelFile, prog, trainVars, calls, appVars>>

\* the connection is closed and the server is back in accept(): the
\* handler of api.py is dropped, the loop of api_simple.py starts over
ApiAccept ==
    /\ prog \in Servers /\ pc = "serving" /\ request # NoRequest
    /\ request' = NoRequest /\ response' = NoResponse /\ result' = NoResult
    /\ UNCHANGED <<unitVars, csvFile, modelFile, prog, pc, exc, trainVars, MODEL_DATA, calls, appVars>>

(***************************************************************************)
(* Serving: app.py, the Flask service on the pickles of train.py.  The     *)
(* fitted RandomForestRegressor and StandardScaler are library objects:    *)
(* what model.predict returns is an input of the step.                     *)
(***************************************************************************)

\* train.py lines 60-67, 88: the encoders (LabelEncoder.classes_, sorted) and
\* feature_cols of a csv file with the columns of Row
PklTrained ==
    [kind |-> "pkl",
     encoders |-> [airline          |-> <<"Air India", "IndiGo">>,
                   source_city      |-> <<"Delhi", "Mumbai">>,
                   class            |-> <<"Business", "Economy">>,
                   destination_city |-> <<"Delhi", "Mumbai">>],
     feature_cols |-> {"airline", "source_city", "stops", "destination_city", "class",
                       "duration", "days_left",
                       "departure_time_hour", "departure_time_day", "departure_time_month",
                       "arrival_time_hour", "arrival_time_day", "arrival_time_month"}]

\* the same for a csv file that has a column aircraft as well
PklExtraColumn == [PklTrained EXCEPT !.feature_cols = @ \cup {"aircraft"}]

PklCorrupt == [kind |-> "corrupt"]

PklStates == {PklMissing, PklCorrupt, PklTrained, PklExtraColumn}

\* LabelEncoder.transform([value]): the index in classes_, ValueError for a
\* value that is not in classes_
LabelTransform(classes, value) ==
    IF \E i \in 1..Len(classes) : classes[i] = value
    THEN Ok((CHOOSE i \in 1..Len(classes) : classes[i] = value) - 1)
    ELSE Raise("ValueError")

\* app.py lines 91-99: the code of column col, -1 for an unknown category
AppEncode(enc, col, value) ==
    LET r == LabelTransform(enc[col], value) IN IF r.ok THEN r.v ELSE -1

categorical_cols == {"airline", "source_city", "class", "destination_city"}

time_cols == {"departure_time", "arrival_time"}

numeric_cols == {"stops", "days_left", "duration"}

required_fields == categorical_cols \cup time_cols \cup numeric_cols

\* pd.to_datetime(text, errors='coerce') is NaT: the requests carry either an
\* ISO timestamp or text that is no date
IsNaT(cs) == ~FromIsoformatHour(ReplaceZ(cs)).ok

\* pd.to_numeric(text, errors='coerce')
ToNumeric(cs) == LET r == PyFloatOfStr(cs) IN IF r.ok THEN r.v ELSE NaN

\* the columns of df when df[feature_cols] is evaluated
AppColumns(flight) ==
    (DOMAIN flight \ time_cols)
    \cup {"departure_time_hour", "departure_time_day", "departure_time_month",
          "arrival_time_hour", "arrival_time_day", "arrival_time_month"}

\* the categorical features as model.predict gets them
AppCodes(enc, flight) ==
    [col \in categorical_cols \cap DOMAIN enc |-> AppEncode(enc, col, flight[col])]

\* what model.predict may do: return a price of the fitted forest, or raise
RawPrices == {FInt(-50), Zero, Fin(24681, 200)}

SklearnOutcomes ==
    {Ok(raw) : raw \in RawPrices} \cup {[ok |-> FALSE, v |-> PyNone, exc |-> "ValueError"]}

\* predict raises only on features that are not finite; an infinity is
\* rejected by scaler.transform
AppOutcomeFits(flight, outcome) ==
    LET nums == {ToNumeric(flight[col]) : col \in numeric_cols}
    IN  /\ (\A v \in nums : v.k = "fin") => outcome.ok
        /\ (\E v \in nums : v.k = "inf") => ~outcome.ok

\* app.py lines 88-122 (lines 180-209 in batch_predict): the price of one
\* flight, or the exception raised
AppPrice(enc, cols, flight, outcome) ==
    IF (categorical_cols \cap DOMAIN enc) \ DOMAIN flight # {} THEN Raise("KeyError")
    ELSE IF time_cols \ DOMAIN flight # {} THEN Raise("KeyError")
    ELSE IF \E col \in time_cols : IsNaT(flight[col]) THEN Raise("ValueError")
    ELSE IF numeric_cols \ DOMAIN flight # {} THEN Raise("KeyError")
    ELSE IF cols \ AppColumns(flight) # {} THEN Raise("KeyError")
    ELSE IF ~outcome.ok THEN outcome
    ELSE Ok(PyMax0(outcome.v))

\* predict_price of app.py: the response
AppPredictPrice(loaded, enc, cols, flight, outcome) ==
    IF ~loaded
    THEN [status |-> 503,
          body |-> [status |-> "error",
                    error |-> "Model not loaded. Please train the model first."]]
    ELSE IF required_fields \ DOMAIN flight # {}
    THEN [status |-> 400, body |-> [status |-> "error", error |-> "Missing required fields"]]
    ELSE LET price     == AppPrice(enc, cols, flight, outcome)
             stops     == PyIntOfCell(flight["stops"])
             days_left == PyIntOfCell(flight["days_left"])
             failed    == IF ~price.ok THEN price.exc
                          ELSE IF ~stops.ok THEN stops.exc
                          ELSE IF ~days_left.ok THEN days_left.exc
                          ELSE "None"
         IN  IF failed # "None"
             THEN [status |-> 500, body |-> [status |-> "error", error |-> ExcMessage(failed)]]
             ELSE [status |-> 200,
                   body |-> [status |-> "success",
                             predicted_price |-> Round2(price.v),
                             currency |-> "USD",
                             input |-> [airline   |-> flight["airline"],
                                        route     |-> <<flight["source_city"],
                                                        flight["destination_city"]>>,
                                        class     |-> flight["class"],
                                        stops     |-> stops.v,
                                        days_left |-> days_left.v]]]

\* one entry of batch_predict's predictions
BatchEntry(enc, cols, flight, outcome) ==
    LET price == AppPrice(enc, cols, flight, outcome)
    IN  IF price.ok
        THEN [flight |-> DictGet(flight, "airline", "N/A"),
              route  |-> <<DictGet(flight, "source_city", "N/A"),
                           DictGet(flight, "destinatin", "N/A")>>,
              predicted_price |-> Round2(price.v), status |-> "success"]
        ELSE [flight |-> DictGet(flight, "airline", "N/A"),
              error  |-> ExcMessage(price.exc), status |-> "failed"]

\* batch_predict of app.py: the response
AppBatchPredict(loaded, enc, cols, flights, outcomes) ==
    IF ~loaded
    THEN [status |-> 503, body |-> [status |-> "error", error |-> "Model not loaded"]]
    ELSE IF flights = <<>>
    THEN [status |-> 400, body |-> [status |-> "error", error |-> "No flights provided"]]
    ELSE LET predictions == [i \in 1..Len(flights) |->
                                BatchEntry(enc, cols, flights[i], outcomes[i])]
         IN  [status |-> 200,
              body |-> [status |-> "completed", total |-> Len(flights),
                        successful |-> Cardinality({i \in 1..Len(flights) :
                                                     predictions[i].status = "success"}),
                        predictions |-> predictions]]

\* the request of the docstring of predict_price, under the required names
AppBaseFlight ==
    [airline |-> "IndiGo", source_city |-> "Mumbai", stops |-> <<"0">>,
     departure_time |-> T_1000, arrival_time |-> T_1230, destination_city |-> "Delhi",
     class |-> "Business", duration |-> <<"2", "4", "0">>, days_left |-> <<"5">>]

\* the other values a request body may carry under a key
AppAlternatives(key) ==
    CASE key = "airline" -> {"Air India", "UnknownCarrier"}
      [] key = "source_city" -> {"Delhi", "Atlantis"}
      [] key = "destination_city" -> {"Mumbai", "Atlantis"}
      [] key = "class" -> {"Economy", "First"}
      [] key = "stops" -> {<<"1">>, <<"n", "a", "n">>, <<"a", "b", "c">>}
      [] key = "departure_time" -> {T_0715Z, T_Garbage}
      [] key = "arrival_time" -> {T_Garbage}
      [] key = "duration" -> {<<"9", "0">>, <<"i", "n", "f">>}
      [] key = "days_left" -> {<<"1">>, <<"-", "1">>}
      [] key = "aircraft" -> {"A320"}

\* the request bodies: AppBaseFlight with at most one key set, added or removed
AppFlights ==
    {AppBaseFlight}
    \cup UNION {{DictSet(AppBaseFlight, key, v) : v \in AppAlternatives(key)} :
                 key \in required_fields \cup {"aircraft"}}
    \cup {DictDel(AppBaseFlight, key) : key \in required_fields}

\* the flights of a batch
BatchFlights ==
    {AppBaseFlight,
     DictSet(AppBaseFlight, "airline", "UnknownCarrier"),
     DictSet(AppBaseFlight, "stops", <<"n", "a", "n">>),
     DictDel(AppBaseFlight, "duration")}

MaxBatch == 2

InitApp ==
    /\ csvFile = <<>> /\ modelFile = FileMissing
    /\ prog = "none" /\ pc = "none" /\ exc = "None"
    /\ TrainIdle
    /\ ServeIdle
    /\ pklFiles \in PklStates /\ AppIdle
    /\ UnitIdle

\* python app.py / gunicorn app:app
StartApp ==
    /\ prog = "none"
    /\ prog' = "app" /\ pc' = "import"
    /\ UNCHANGED <<unitVars, csvFile, modelFile, exc, trainVars, serveVars, appVars>>

\* the module's top level, lines 27-38: the four joblib.load in a try whose
\* except sets MODEL_LOADED = False; the app is served either way
AppImport ==
    /\ prog = "app" /\ pc = "import"
    /\ IF pklFiles.kind = "pkl"
       THEN /\ MODEL_LOADED' = TRUE
            /\ encoders' = pklFiles.encoders
            /\ feature_cols' = pklFiles.feature_cols
       ELSE /\ MODEL_LOADED' = FALSE
            /\ UNCHANGED <<encoders, feature_cols>>
    /\ pc' = "serving"
    /\ UNCHANGED <<unitVars, csvFile, modelFile, prog, exc, trainVars, serveVars, pklFiles>>

\* GET /health
AppHealthCheck ==
    /\ prog = "app" /\ Accepting
    /\ request' = [path |-> "/health", flight_data |-> EmptyDict]
    /\ response' = [status |-> 200,
                    body |-> [status |-> "healthy", model_loaded |-> MODEL_LOADED]]
    /\ UNCHANGED <<unitVars, csvFile, modelFile, prog, pc, exc, trainVars, MODEL_DATA, result, calls, appVars>>

\* POST /predict
AppPredict(flight, outcome) ==
    /\ prog = "app" /\ Accepting
    /\ required_fields \subseteq DOMAIN flight => AppOutcomeFits(flight, outcome)
    /\ request' = [path |-> "/predict", flight_data |-> flight]
    /\ response' = AppPredictPrice(MODEL_LOADED, encoders, feature_cols, flight, outcome)
    /\ UNCHANGED <<unitVars, csvFile, modelFile, prog, pc, exc, trainVars, MODEL_DATA, result, calls, appVars>>

\* POST /batch-predict
AppBatch(flights, outcomes) ==
    /\ prog = "app" /\ Accepting
    /\ \A i \in 1..Len(flights) :
          required_fields \subseteq DOMAIN flights[i] => AppOutcomeFits(flights[i], outcomes[i])
    /\ request' = [path |-> "/batch-predict", flight_data |-> flights]
    /\ response' = AppBatchPredict(MODEL_LOADED, encoders, feature_cols, flights, outcomes)
    /\ UNCHANGED <<unitVars, csvFile, modelFile, prog, pc, exc, trainVars, MODEL_DATA, result, calls, appVars>>

\* the view function has returned and the request context is dropped
AppReturn ==
    /\ prog = "app" /\ pc = "serving" /\ request # NoRequest
    /\ request' = NoRequest /\ response' = NoResponse
    /\ UNCHANGED <<unitVars, csvFile, modelFile, prog, pc, exc, trainVars, MODEL_DATA, result, calls, appVars>>

NextApp ==
    \/ StartApp
    \/ AppImport
    \/ AppHealthCheck
    \/ \E flight \in AppFlights, outcome \in SklearnOutcomes : AppPredict(flight, outcome)
    \/ \E flights \in SeqsUpTo(BatchFlights, MaxBatch) :
          \E outcomes \in [1..Len(flights) -> SklearnOutcomes] : AppBatch(flights, outcomes)
    \/ AppReturn

(***************************************************************************)
(* predict_price called from several threads on one loaded MODEL_DATA.  A  *)
(* call evaluates its feature list one element at a time; between two      *)
(* elements any other call may run.                                        *)
(***************************************************************************)
Threads == {1, 2}

\* a thread that is in no call
NoCall == [pc |-> "idle", flight_data |-> EmptyDict, vals |-> <<>>, exc |-> "None",
           price |-> PyNone, error |-> "None"]

\* the artifacts the threads share
SharedFiles == {LinearArtifact(<<RowIndiGo>>), LinearArtifact(<<RowIndiGo, RowAirIndia>>)}

\* the requests the threads make
SharedFlights ==
    {BaseFlight,
     DictSet(BaseFlight, "airline", "UnknownCarrier"),
     DictSet(BaseFlight, "class", "First"),
     DictSet(BaseFlight, "stops", <<"a", "b", "c">>),
     DictSet(BaseFlight, "days_left", <<"1">>)}

InitShared ==
    /\ csvFile = <<>>
    /\ modelFile \in SharedFiles
    /\ prog = "api" /\ pc = "serving" /\ exc = "None"
    /\ TrainIdle
    /\ MODEL_DATA = JsonLoad(modelFile.text)
    /\ request = NoRequest /\ response = NoResponse /\ result = NoResult
    /\ calls = [t \in Threads |-> NoCall]
    /\ pklFiles = PklMissing /\ AppIdle
    /\ UnitIdle

\* thread t enters predict_price(flight_data)
CallPredictPrice(t, flight_data) ==
    /\ calls[t].pc = "idle"
    /\ calls' = [calls EXCEPT ![t] = [NoCall EXCEPT !.pc = "features",
                                                    !.flight_data = flight_data]]
    /\ UNCHANGED <<unitVars, csvFile, modelFile, prog, pc, exc, trainVars, MODEL_DATA, request,
                   response, result, appVars>>

\* thread t evaluates the next element of its feature list, lines 49-60
FeatureElement(t) ==
    /\ calls[t].pc = "features" /\ calls[t].exc = "None"
    /\ Len(calls[t].vals) < Len(ServeSteps)
    /\ LET st == FeatureStep(ServeSteps[Len(calls[t].vals) + 1], calls[t].flight_data,
                             [maps |-> MODEL_DATA, vals |-> calls[t].vals, exc |-> "None"])
       IN  /\ MODEL_DATA' = st.maps
           /\ calls' = [calls EXCEPT ![t].vals = st.vals, ![t].exc = st.exc]
    /\ UNCHANGED <<unitVars, csvFile, modelFile, prog, pc, exc, trainVars, request, response, result,
                   appVars>>

\* thread t runs lines 62-83 and has its return value
FinishPredictPrice(t) ==
    /\ calls[t].pc = "features"
    /\ calls[t].exc # "None" \/ Len(calls[t].vals) = Len(ServeSteps)
    /\ LET ret == PredictReturn([maps |-> MODEL_DATA, vals |-> calls[t].vals,
                                 exc |-> calls[t].exc])
       IN  /\ MODEL_DATA' = ret.model_data
           /\ calls' = [calls EXCEPT ![t].pc = "returned", ![t].price = ret.price,
                                     ![t].error = ret.error]
    /\ UNCHANGED <<unitVars, csvFile, modelFile, prog, pc, exc, trainVars, request, response, result,
                   appVars>>

\* the caller of thread t has taken the return value
LeavePredictPrice(t) ==
    /\ calls[t].pc = "returned"
    /\ calls' = [calls EXCEPT ![t] = NoCall]
    /\ UNCHANGED <<unitVars, csvFile, modelFile, prog, pc, exc, trainVars, MODEL_DATA, request,
                   response, result, appVars>>

NextShared ==
    \/ \E t \in Threads, flight_data \in SharedFlights : CallPredictPrice(t, flight_data)
    \/ \E t \in Threads : FeatureElement(t)
    \/ \E t \in Threads : FinishPredictPrice(t)
    \/ \E t \in Threads : LeavePredictPrice(t)

NextServe ==
    \/ \E p \in Servers : StartServer(p)
    \/ ApiImport
    \/ ApiHealth
    \/ \E flight_data \in Flights : ApiPredict(flight_data)
    \/ ApiAccept

NextTrain ==
    \/ \E p \in Trainers : StartTrainer(p)
    \/ LoadCsv
    \/ LinearTrainRecord
    \/ ForestTrainRecord
    \/ TrainStats
    \/ LinearTrainFit
    \/ LinearTrainEvaluate
    \/ LinearTrainSave
    \/ ForestCreate
    \/ ForestFitTree
    \/ ForestTrainEvaluate
    \/ ForestTrainSave

SpecTrain == InitTrain /\ [][NextTrain]_vars

SpecServe == InitServe /\ [][NextServe]_vars

SpecApp == InitApp /\ [][NextApp]_vars

SpecShared == InitShared /\ [][NextShared]_vars

Init == InitTrain \/ InitServe \/ InitApp

Next == NextTrain \/ NextServe \/ NextApp

Spec == Init /\ [][Next]_vars

(***************************************************************************)
(* Functions called on their own, outside train_model and the servers:     *)
(* frame holds the call (the function, its arguments and locals), retval   *)
(* the value returned.  The programs are not running.                      *)
(***************************************************************************)
ProgramsIdle ==
    /\ csvFile = <<>> /\ modelFile = FileMissing
    /\ prog = "none" /\ pc = "none" /\ exc = "None"
    /\ TrainIdle
    /\ ServeIdle
    /\ pklFiles = PklMissing /\ AppIdle

\* the character of a digit
DigitOf(d) == CHOOSE c \in Digits : DigitVal(c) = d

\* the string "HH:MM"
HHMM(h, m) == <<DigitOf(h \div 10), DigitOf(h % 10), ":", DigitOf(m \div 10), DigitOf(m % 10)>>

\* the strings extract_hour is called with: every hour as a bare HH:MM, full
\* timestamps, and strings that are neither
TimeStrings ==
    {HHMM(h, m) : h \in 0..23, m \in {0, 30}}
    \cup {T_1000, T_1230, T_0715Z, T_Garbage, <<>>,
          <<"2", "0", "2", "6", "-", "0", "2", "-", "2", "0">>,
          <<"a", "b", ":", "c", "d">>,
          <<"9", "9", ":", "0", "0">>,
          <<"2", "0", "-", "0", "2", "-", "2", "0", "2", "6", " ", "1", "0", ":", "0", "0">>,
          <<"x", " ", "9", "9", ":", "0", "0">>,
          <<"x", " ", "-", "1", ":", "0", "0">>}

\* the modules that define extract_hour
HourModules == {"train_simple", "api", "api_simple", "simple_train"}

\* no function has been called yet
InitUnit ==
    /\ ProgramsIdle
    /\ UnitIdle

\* extract_hour(time_str) of module m is called
ExtractHourCall(m, time_str) ==
    /\ frame = NoFrame
    /\ frame' = [fn |-> "extract_hour", module |-> m, time_str |-> time_str, pc |-> "called"]
    /\ retval' = PyNone
    /\ UNCHANGED <<csvFile, modelFile, prog, pc, exc, trainVars, serveVars, appVars>>

\* the call returns a value or raises
ExtractHourReturn ==
    /\ frame.fn = "extract_hour" /\ frame.pc = "called"
    /\ retval' = IF frame.module = "simple_train" THEN extract_hour_forest(frame.time_str)
                 ELSE Ok(extract_hour(frame.time_str))
    /\ frame' = [frame EXCEPT !.pc = "returned"]
    /\ UNCHANGED <<csvFile, modelFile, prog, pc, exc, trainVars, serveVars, appVars>>

\* the caller has taken the value
UnitLeave ==
    /\ frame # NoFrame /\ frame.pc = "returned"
    /\ frame' = NoFrame /\ retval' = PyNone
    /\ UNCHANGED <<csvFile, modelFile, prog, pc, exc, trainVars, serveVars, appVars>>

\* the largest sample set SimpleDecisionTree.fit is called with
MaxSamples == 3

\* the largest max_depth a tree is created with
MaxTreeDepth == 2

\* samples (x, price): vectors of two integer features, as the encoder
\* produces them (three values of the first, two of the second), each with
\* one of three prices
TreePairs ==
    LET vectors == <<<<FInt(0), FInt(0)>>, <<FInt(1), FInt(1)>>, <<FInt(2), FInt(0)>>>>
        targets == <<FInt(0), FInt(1), FInt(3)>>
    IN  [k \in 1..9 |-> [x |-> vectors[((k - 1) \div 3) + 1], y |-> targets[((k - 1) % 3) + 1]]]

\* the sample sets: one to MaxSamples samples, X and y of equal length; the
\* samples are listed in the order of TreePairs
TreeSamples ==
    UNION {{[X |-> [i \in 1..n |-> TreePairs[f[i]].x], y |-> [i \in 1..n |-> TreePairs[f[i]].y]] :
            f \in {g \in [1..n -> 1..9] : \A i \in 1..(n - 1) : g[i] <= g[i + 1]}} :
           n \in 1..MaxSamples}

\* SimpleDecisionTree(max_depth, min_samples_split).fit(X, y) is called
TreeFitCall(max_depth, min_samples_split, sample) ==
    /\ frame = NoFrame
    /\ frame' = [fn |-> "SimpleDecisionTree.fit", max_depth |-> max_depth,
                 min_samples_split |-> min_samples_split,
                 X |-> sample.X, y |-> sample.y, pc |-> "called"]
    /\ retval' = PyNone
    /\ UNCHANGED <<csvFile, modelFile, prog, pc, exc, trainVars, serveVars, appVars>>

\* fit, lines 20-22: self.tree = self._build_tree(X, y, depth=0); return self
TreeFitReturn ==
    /\ frame.fn = "SimpleDecisionTree.fit" /\ frame.pc = "called"
    /\ retval' = [max_depth |-> frame.max_depth,
                  min_samples_split |-> frame.min_samples_split,
                  tree |-> BuildTree(frame.X, frame.y, 0, frame.max_depth,
                                     frame.min_samples_split)]
    /\ frame' = [frame EXCEPT !.pc = "returned"]
    /\ UNCHANGED <<csvFile, modelFile, prog, pc, exc, trainVars, serveVars, appVars>>

NextTree ==
    \/ \E max_depth \in 0..MaxTreeDepth, min_samples_split \in 1..3, sample \in TreeSamples :
          TreeFitCall(max_depth, min_samples_split, sample)
    \/ TreeFitReturn
    \/ UnitLeave

SpecTree == InitUnit /\ [][NextTree]_vars

\* the records LinearRegression.fit is called with, one at a time: the
\* feature vector of the record IndiGo, Mumbai, 0 stops, 10:00, 12:30, Delhi,
\* Business, duration 150, 5 days left, and a second vector
FitVectors ==
    {<<FInt(0), FInt(0), FInt(0), FInt(10), FInt(12), FInt(0), FInt(0), FInt(150), FInt(5)>>,
     <<FInt(1), FInt(0), FInt(2), FInt(7), FInt(23), FInt(1), FInt(1), Fin(5, 2), FInt(30)>>}

\* their prices
FitPrices == {FInt(9000), FInt(8), Fin(1, 2), FInt(0), FInt(-5)}

\* learning rates in (0, 1): train_model's 0.01, and larger
LearningRates == {LearningRate, Fin(1, 10), Fin(1, 4), Fin(1, 2), Fin(3, 4)}

\* model = LinearRegression(); model.fit([x], [price], learning_rate, iterations)
LinearFitCall(x, price, learning_rate) ==
    /\ frame = NoFrame
    /\ frame' = [fn |-> "LinearRegression.fit",
                 self |-> [weights |-> PyNone, bias |-> Zero, mean_x |-> PyNone, std_x |-> PyNone],
                 X |-> <<x>>, y |-> <<price>>,
                 learning_rate |-> learning_rate, iterations |-> Iterations,
                 X_norm |-> <<>>, iteration |-> 0, pc |-> "called"]
    /\ retval' = PyNone
    /\ UNCHANGED <<csvFile, modelFile, prog, pc, exc, trainVars, serveVars, appVars>>

\* fit, lines 54-73: zero weights and bias, mean_x, std_x, X_norm
LinearFitNormalize ==
    /\ frame.fn = "LinearRegression.fit" /\ frame.pc = "called"
    /\ frame' = [frame EXCEPT
                    !.self = [weights |-> [j \in 1..Len(frame.X[1]) |-> Zero], bias |-> Zero,
                              mean_x |-> FitMean(frame.X), std_x |-> FitStd(frame.X)],
                    !.X_norm = [i \in 1..Len(frame.X) |->
                                   Standardize(frame.X[i], FitMean(frame.X), FitStd(frame.X))],
                    !.pc = "descent"]
    /\ UNCHANGED <<retval, csvFile, modelFile, prog, pc, exc, trainVars, serveVars, appVars>>

\* fit, lines 76-93: one iteration of the gradient descent
LinearFitIteration ==
    /\ frame.fn = "LinearRegression.fit" /\ frame.pc = "descent"
    /\ frame.iteration < frame.iterations
    /\ frame' = [frame EXCEPT
                    !.self = GradientStep(frame.self, frame.X_norm, frame.y, frame.learning_rate),
                    !.iteration = @ + 1]
    /\ UNCHANGED <<retval, csvFile, modelFile, prog, pc, exc, trainVars, serveVars, appVars>>

\* the loop has run its iterations; fit returns None
LinearFitReturn ==
    /\ frame.fn = "LinearRegression.fit" /\ frame.pc = "descent"
    /\ frame.iteration = frame.iterations
    /\ frame' = [frame EXCEPT !.pc = "returned"]
    /\ UNCHANGED <<retval, csvFile, modelFile, prog, pc, exc, trainVars, serveVars, appVars>>

NextFit ==
    \/ \E x \in FitVectors, price \in FitPrices, learning_rate \in LearningRates :
          LinearFitCall(x, price, learning_rate)
    \/ LinearFitNormalize
    \/ LinearFitIteration
    \/ LinearFitReturn
    \/ UnitLeave

SpecFit == InitUnit /\ [][NextFit]_vars

NextHour ==
    \/ \E m \in HourModules, time_str \in TimeStrings : ExtractHourCall(m, time_str)
    \/ ExtractHourReturn
    \/ UnitLeave

SpecHour == InitUnit /\ [][NextHour]_vars

(***************************************************************************)
(* simple_train.py: one SimpleRandomForest instance, fit called on it      *)
(* again and again.  frame holds the instance (self) and the call in       *)
(* progress.                                                               *)
(***************************************************************************)
\* the largest number of fit calls on one instance
MaxFits == 2

\* the training sets fit is called with: one, two and three samples
ForestSamples ==
    {[X |-> [i \in 1..Len(q) |-> TreePairs[q[i]].x], y |-> [i \in 1..Len(q) |-> TreePairs[q[i]].y]] :
        q \in {<<1>>, <<1, 6>>, <<2, 4, 9>>}}

\* forest = SimpleRandomForest(n_trees, max_depth): __init__, lines 95-98
ForestNew(n_trees, max_depth) ==
    /\ frame = NoFrame
    /\ frame' = [fn |-> "SimpleRandomForest",
                 self |-> [n_trees |-> n_trees, max_depth |-> max_depth, trees |-> <<>>],
                 X |-> <<>>, y |-> <<>>, fits |-> 0, built |-> 0, pc |-> "created"]
    /\ retval' = PyNone
    /\ UNCHANGED <<csvFile, modelFile, prog, pc, exc, trainVars, serveVars, appVars>>

\* forest.fit(X, y) is entered: line 100
ForestFitCall(sample) ==
    /\ frame.fn = "SimpleRandomForest" /\ frame.pc \in {"created", "fitted"}
    /\ frame.fits < MaxFits
    /\ frame' = [frame EXCEPT !.X = sample.X, !.y = sample.y, !.fits = @ + 1,
                              !.built = 0, !.pc = "fitting"]
    /\ retval' = PyNone
    /\ UNCHANGED <<csvFile, modelFile, prog, pc, exc, trainVars, serveVars, appVars>>

\* one iteration of fit's loop, lines 102-110: the bootstrap indices
\* (random.randint(0, len(X) - 1), len(X) times), the sample, the tree fitted
\* on it, self.trees.append(tree)
ForestFitIteration ==
    /\ frame.fn = "SimpleRandomForest" /\ frame.pc = "fitting"
    /\ frame.built < frame.self.n_trees
    /\ \E indices \in [1..Len(frame.X) -> 1..Len(frame.X)] :
          frame' = [frame EXCEPT
                       !.self.trees = Append(@, BootstrapTree(frame.X, frame.y, indices,
                                                              frame.self.max_depth)),
                       !.built = @ + 1]
    /\ UNCHANGED <<retval, csvFile, modelFile, prog, pc, exc, trainVars, serveVars, appVars>>

\* the loop is over: return self, line 111
ForestFitReturn ==
    /\ frame.fn = "SimpleRandomForest" /\ frame.pc = "fitting"
    /\ frame.built = frame.self.n_trees
    /\ frame' = [frame EXCEPT !.pc = "fitted"]
    /\ retval' = frame.self
    /\ UNCHANGED <<csvFile, modelFile, prog, pc, exc, trainVars, serveVars, appVars>>

\* forest.predict(X) on the data of the last fit, lines 113-115; the
\* instance is not used any further
ForestPredictCall ==
    /\ frame.fn = "SimpleRandomForest" /\ frame.pc = "fitted"
    /\ retval' = ForestPredict(frame.self.trees, frame.X)
    /\ frame' = [frame EXCEPT !.pc = "returned"]
    /\ UNCHANGED <<csvFile, modelFile, prog, pc, exc, trainVars, serveVars, appVars>>

NextForest ==
    \/ \E n_trees \in 1..NTrees : ForestNew(n_trees, MaxDepth)
    \/ \E sample \in ForestSamples : ForestFitCall(sample)
    \/ ForestFitIteration
    \/ ForestFitReturn
    \/ ForestPredictCall
    \/ UnitLeave

SpecForest == InitUnit /\ [][NextForest]_vars

(***************************************************************************)
(* train_simple.py: LinearRegression.fit in binary floating point.  Every  *)
(* arithmetic operation on Python floats yields the representable number   *)
(* nearest to the exact result (ties to the even significand).  The        *)
(* numbers here have a significand of Precision bits (binary64 has 53) and *)
(* an unbounded exponent.                                                  *)
(***************************************************************************)
\* the bits of a significand
Precision == 5

\* the float nearest to n / d * un / ud, for n / d > 0 and un / ud a power
\* of two: n / d is scaled into [2^(Precision-1), 2^Precision) and rounded
\* to an integer, half to even
RECURSIVE RoundPos(_, _, _, _)
RoundPos(n, d, un, ud) ==
    IF n >= d * 2^Precision THEN RoundPos(n, 2 * d, 2 * un, ud)
    ELSE IF n < d * 2^(Precision - 1) THEN RoundPos(2 * n, d, un, 2 * ud)
    ELSE LET m  == n \div d
             r2 == 2 * (n % d)
         IN  Fin((IF r2 > d \/ (r2 = d /\ m % 2 = 1) THEN m + 1 ELSE m) * un, ud)

\* the float nearest to the exact value a
Float(a) ==
    IF a.k # "fin" \/ a.n = 0 THEN a
    ELSE IF a.n < 0 THEN FNeg(RoundPos(-a.n, a.d, 1, 1))
    ELSE RoundPos(a.n, a.d, 1, 1)

\* a + b, a - b, a * b, a / b on floats
FlAdd(a, b) == Float(FAdd(a, b))

FlSub(a, b) == Float(FSub(a, b))

FlMul(a, b) == Float(FMul(a, b))

FlDiv(a, b) == Float(FDiv(a, b))

\* sum(v): the elements are added to 0 one after the other
RECURSIVE FlSumTo(_, _)
FlSumTo(v, n) == IF n = 0 THEN Zero ELSE FlAdd(FlSumTo(v, n - 1), v[n])

FlSum(v) == FlSumTo(v, Len(v))

\* the float nearest to sqrt(n / d) * un / ud, for n / d > 0: n / d is scaled
\* into [4^(Precision-1), 4^Precision) and its root rounded to an integer
RECURSIVE SqrtPos(_, _, _, _)
SqrtPos(n, d, un, ud) ==
    IF n >= d * 4^Precision THEN SqrtPos(n, 4 * d, 2 * un, ud)
    ELSE IF n < d * 4^(Precision - 1) THEN SqrtPos(4 * n, d, un, 2 * ud)
    ELSE LET r == ISqrt(n \div d)
         IN  Fin((IF 4 * n > (4 * r * r + 4 * r + 1) * d THEN r + 1 ELSE r) * un, ud)

\* math.sqrt(v) for v > 0 or v = inf
FlSqrt(v) == IF v.k # "fin" THEN v ELSE SqrtPos(v.n, v.d, 1, 1)

\* line 59: mean_x
FloatFitMean(Xs) ==
    [j \in 1..Len(Xs[1]) |-> FlDiv(FlSum(Column(Xs, j)), FInt(Len(Xs)))]

\* lines 60-64: std_x
FloatFitStd(Xs, mean_x) ==
    [j \in 1..Len(Xs[1]) |->
        LET sq(i)    == FlMul(FlSub(Xs[i][j], mean_x[j]), FlSub(Xs[i][j], mean_x[j]))
            variance == FlDiv(FlSum([i \in 1..Len(Xs) |-> sq(i)]), FInt(Len(Xs)))
        IN  IF FGt(variance, Zero) THEN FlSqrt(variance) ELSE FInt(1)]

\* lines 67-73 and 104-106: (x[j] - mean_x[j]) / std_x[j] for every j
FloatStandardize(x, mean_x, std_x) ==
    [j \in 1..Len(x) |-> FlDiv(FlSub(x[j], mean_x[j]), std_x[j])]

\* lines 76-93: one iteration of the gradient descent
FloatGradientStep(m, X_norm, ys, learning_rate) ==
    LET dot(i)      == FlSum([j \in 1..Len(m.weights) |-> FlMul(m.weights[j], X_norm[i][j])])
        predictions == [i \in 1..Len(X_norm) |-> FlAdd(m.bias, dot(i))]
        errors      == [i \in 1..Len(ys) |-> FlSub(ys[i], predictions[i])]
        gradient(j) == FlDiv(FlMul(FInt(-2),
                                   FlSum([i \in 1..Len(X_norm) |->
                                             FlMul(errors[i], X_norm[i][j])])),
                             FInt(Len(X_norm)))
        bias_gradient == FlDiv(FlMul(FInt(-2), FlSum(errors)), FInt(Len(errors)))
    IN  [m EXCEPT !.weights = [j \in 1..Len(m.weights) |->
                                  FlSub(m.weights[j], FlMul(learning_rate, gradient(j)))],
                  !.bias    = FlSub(m.bias, FlMul(learning_rate, bias_gradient))]

\* lines 99-113: predict(X)[i] for one feature vector
FloatPredictOne(m, x) ==
    LET normalized == FloatStandardize(x, m.mean_x, m.std_x)
    IN  PyMax0(FlAdd(m.bias, FlSum([j \in 1..Len(normalized) |->
                                       FlMul(m.weights[j], normalized[j])])))

\* the largest training set fit is called with
MaxRows == 3

\* records (x, price) of two features: a category code and a duration
FloatPairs ==
    {[x |-> <<FInt(c), d>>, y |-> FInt(p)] :
        c \in {0, 1}, d \in {FInt(2), Fin(11, 4)}, p \in {1, 8}}

\* the training sets: one to MaxRows records
FloatSamples ==
    {[X |-> [i \in 1..Len(q) |-> q[i].x], y |-> [i \in 1..Len(q) |-> q[i].y]] :
        q \in SeqsUpTo(FloatPairs, MaxRows) \ {<<>>}}

\* model = LinearRegression(); model.fit(X, y, learning_rate, iterations)
FloatFitCall(sample, learning_rate) ==
    /\ frame = NoFrame
    /\ frame' = [fn |-> "LinearRegression.fit (floats)",
                 self |-> [weights |-> PyNone, bias |-> Zero, mean_x |-> PyNone, std_x |-> PyNone],
                 X |-> sample.X, y |-> sample.y,
                 learning_rate |-> Float(learning_rate), iterations |-> Iterations,
                 X_norm |-> <<>>, iteration |-> 0, pc |-> "called"]
    /\ retval' = PyNone
    /\ UNCHANGED <<csvFile, modelFile, prog, pc, exc, trainVars, serveVars, appVars>>

\* lines 54-73: weights, bias, mean_x, std_x and the normalized X
FloatFitNormalize ==
    /\ frame.fn = "LinearRegression.fit (floats)" /\ frame.pc = "called"
    /\ \E mean_x \in {FloatFitMean(frame.X)} :
       \E std_x \in {FloatFitStd(frame.X, mean_x)} :
          frame' = [frame EXCEPT
                       !.self = [weights |-> [j \in 1..Len(frame.X[1]) |-> Zero],
                                 bias |-> Zero, mean_x |-> mean_x, std_x |-> std_x],
                       !.X_norm = [i \in 1..Len(frame.X) |->
                                      FloatStandardize(frame.X[i], mean_x, std_x)],
                       !.pc = "descent"]
    /\ UNCHANGED <<retval, csvFile, modelFile, prog, pc, exc, trainVars, serveVars, appVars>>

\* lines 76-93: one iteration of the loop
FloatFitIteration ==
    /\ frame.fn = "LinearRegression.fit (floats)" /\ frame.pc = "descent"
    /\ frame.iteration < frame.iterations
    /\ frame' = [frame EXCEPT
                    !.self = FloatGradientStep(frame.self, frame.X_norm, frame.y,
                                               frame.learning_rate),
                    !.iteration = @ + 1]
    /\ UNCHANGED <<retval, csvFile, modelFile, prog, pc, exc, trainVars, serveVars, appVars>>

\* the loop is over: fit returns, and predict(X) follows as in train_model
FloatFitReturn ==
    /\ frame.fn = "LinearRegression.fit (floats)" /\ frame.pc = "descent"
    /\ frame.iteration = frame.iterations
    /\ retval' = [i \in 1..Len(frame.X) |-> FloatPredictOne(frame.self, frame.X[i])]
    /\ frame' = [frame EXCEPT !.pc = "returned"]
    /\ UNCHANGED <<csvFile, modelFile, prog, pc, exc, trainVars, serveVars, appVars>>

NextFloat ==
    \/ \E sample \in FloatSamples : FloatFitCall(sample, LearningRate)
    \/ FloatFitNormalize
    \/ FloatFitIteration
    \/ FloatFitReturn
    \/ UnitLeave

SpecFloat == InitUnit /\ [][NextFloat]_vars

(***************************************************************************)
(* The properties checked.                                                 *)
(***************************************************************************)

\* the values predict_price reads for the four categorical fields, by map
CategoricalRead(flight_data) ==
    [airline_map |-> DictGet(flight_data, "airline", ""),
     source_map  |-> DictGet(flight_data, "source_city", ""),
     dest_map    |-> DictGet(flight_data, "destinatin", ""),
     class_map   |-> DictGet(flight_data, "class", "Economy")]

\* one of the four values is absent from its category map
CategoryMiss(flight_data, md) ==
    \E m \in MapKeys : m \in DOMAIN md /\ CategoricalRead(flight_data)[m] \notin DOMAIN md[m]

\* the server has called predict_price for the request in the state
Predicted == prog \in Servers /\ request.path = "/predict"

\* C1: in api.py and api_simple.py, for every request and every loaded
\* artifact, when the value of one of the four categorical fields is absent
\* from its category map, predict_price returns (None, message) and no price.
C1_UnknownCategoryIsError ==
    (Predicted /\ CategoryMiss(request.flight_data, MODEL_DATA))
        => (result.price = PyNone /\ result.error # "None")

\* a request with an unknown airline and nothing else wrong got the
\* category-miss message
C1_Witness ==
    /\ Predicted
    /\ request.flight_data = DictSet(BaseFlight, "airline", "UnknownCarrier")
    /\ "IndiGo" \in DOMAIN MODEL_DATA.airline_map
    /\ result = [price |-> PyNone, error |-> CategoryMissMessage]

\* a categorical value of the request body is unknown to its fitted encoder
AppUnknownCategory(enc, flight) ==
    \E col \in categorical_cols \cap DOMAIN enc \cap DOMAIN flight :
        ~LabelTransform(enc[col], flight[col]).ok

\* C2: in app.py, /predict and /batch-predict reject a request whose airline,
\* source_city, class or destination_city is unknown to the fitted encoder:
\* the response is the error variant and carries no predicted_price.
C2_FlaskRejectsUnknownCategory ==
    /\ (/\ prog = "app" /\ request.path = "/predict" /\ MODEL_LOADED
        /\ AppUnknownCategory(encoders, request.flight_data))
            => response.body.status = "error"
    /\ (prog = "app" /\ request.path = "/batch-predict" /\ response.status = 200)
            => \A i \in 1..Len(request.flight_data) :
                   AppUnknownCategory(encoders, request.flight_data[i])
                       => response.body.predictions[i].status = "failed"

\* a price that is a number and not below zero
NonNegative(price) == price.k \in {"fin", "inf"} /\ FGe(price, Zero)

\* C3: every predicted price that is returned is >= 0: the predictions of
\* LinearRegression.predict, the price predict_price of api.py and
\* api_simple.py returns and the server sends, and the predicted_price of
\* app.py's /predict and /batch-predict.
C3_NonNegativePrice ==
    /\ prog = "train_simple"
           => \A i \in 1..Len(metrics.predictions) : NonNegative(metrics.predictions[i])
    /\ (prog \in Servers /\ result.price # PyNone) => NonNegative(result.price)
    /\ (request.path = "/predict" /\ response.body.status = "success")
           => NonNegative(response.body.predicted_price)
    /\ (request.path = "/batch-predict" /\ response.status = 200)
           => \A i \in 1..Len(response.body.predictions) :
                  response.body.predictions[i].status = "success"
                      => NonNegative(response.body.predictions[i].predicted_price)

\* predict_price returned the price 0 for features on which the bias plus the
\* dot product is below zero
C3_Witness ==
    /\ Predicted
    /\ result.price = Zero
    /\ FGt(Zero, RawPrediction(MODEL_DATA,
                               Encode(ServeSteps, request.flight_data, MODEL_DATA).vals))

\* stops, duratin and days_left of the request are finite numbers (0 when absent)
NumericFields(flight_data) ==
    \A key \in {"stops", "duratin", "days_left"} \cap DOMAIN flight_data :
        PyFloatOfStr(flight_data[key]).ok /\ PyFloatOfStr(flight_data[key]).v.k = "fin"

\* C4: for every request whose four categorical values are all in their
\* category maps and whose stops, duration and days_left are numbers,
\* negative ones such as -1 included, predict_price returns a price and not
\* the error variant.
C4_ErrorOnlyForCategoryMiss ==
    (/\ Predicted
     /\ ~CategoryMiss(request.flight_data, MODEL_DATA)
     /\ NumericFields(request.flight_data))
        => result.price # PyNone

\* C5: a training row that train_simple.py kept, served as a request to
\* api.py under the same field names and values, gets at inference the
\* feature vector it got at fit time: 9 values, position by position.
C5_TrainingInferenceEquivalence ==
    (prog = "train_simple" /\ pc = "done")
        => \A i \in 1..Len(data) :
               \A fit \in {Encode(LinearTrainSteps, data[i], maps)} :
                   fit.exc = "None"
                       => Encode(ServeSteps, data[i], JsonLoad(modelFile.text)).vals
                              = SubSeq(fit.vals, 1, 9)

\* the codes of a category map are the integers 0..n-1, one per value
ContiguousCodes(categories) ==
    {categories[v] : v \in DOMAIN categories} = 0..(DictLen(categories) - 1)

\* a step keeps every code issued and gives a new value the next code
CodesKept(before, after) ==
    /\ DOMAIN before \subseteq DOMAIN after
    /\ \A v \in DOMAIN after :
           IF v \in DOMAIN before THEN after[v] = before[v] ELSE after[v] >= DictLen(before)

\* C6: after any sequence of encode_categorical calls on a map, its codes
\* are pairwise distinct and are exactly 0..n-1 for the n values seen, they
\* are issued in first-seen order, and no later call changes a code issued.
C6_CategoryMapInvariant ==
    /\ [](\A k \in MapKeys : ContiguousCodes(maps[k]))
    /\ [][\A k \in MapKeys : CodesKept(maps[k], maps'[k])]_vars

\* two records are encoded: the airline of the second was in the map, its
\* source city was not
C6_Witness ==
    /\ prog \in Trainers /\ idx = 2
    /\ maps.airline_map = [v \in {"IndiGo"} |-> 0]
    /\ DOMAIN maps.source_map = {"Mumbai", "Delhi"}
    /\ maps.source_map["Mumbai"] = 0 /\ maps.source_map["Delhi"] = 1

\* C7: no call of predict_price changes MODEL_DATA, an unseen category is
\* encoded as -1 and not inserted, and under every interleaving of the calls
\* each call returns what it returns when it runs alone.
C7_ServingReadOnly ==
    /\ MODEL_DATA = JsonLoad(modelFile.text)
    /\ \A t \in Threads :
           /\ (/\ calls[t].pc = "features" /\ Len(calls[t].vals) >= 1
               /\ CategoricalRead(calls[t].flight_data).airline_map
                      \notin DOMAIN JsonLoad(modelFile.text).airline_map)
                  => calls[t].vals[1] = FInt(-1)
           /\ calls[t].pc = "returned"
                  => \A alone \in {PredictPrice(calls[t].flight_data,
                                                JsonLoad(modelFile.text))} :
                         calls[t].price = alone.price /\ calls[t].error = alone.error

\* a call with an unseen airline has returned the category-miss error while
\* another call with the same airline is in its feature list
C7_Witness ==
    /\ calls[1].pc = "returned" /\ calls[1].error = CategoryMissMessage
    /\ calls[1].flight_data.airline = "UnknownCarrier"
    /\ calls[2].pc = "features" /\ Len(calls[2].vals) \in 1..8
    /\ calls[2].flight_data.airline = "UnknownCarrier"

\* C8: for every /predict request the server sends the success variant or
\* the error variant, no exception escapes the handling of the request, and
\* the server goes on accepting requests.
C8_ServingNeverCrashes ==
    Predicted => (pc = "serving" /\ response.body.status \in {"success", "error"})

\* everything inference reads is in the model the process has loaded
CompletelyLoaded ==
    IF prog = "app" THEN MODEL_LOADED /\ pklFiles.kind = "pkl"
    ELSE /\ modelFile.kind = "json"
         /\ {"weights", "bias", "mean_x", "std_x"} \cup MapKeys \subseteq DOMAIN MODEL_DATA

\* C9: when the persisted model is missing, corrupt or partial the serving
\* process refuses to start: api.py, api_simple.py and app.py accept
\* requests only with a completely loaded model.
C9_RefuseToStartWithoutModel ==
    (prog \in Servers \cup {"app"} /\ pc = "serving") => CompletelyLoaded

\* the prediction a process that has loaded the artifact makes for the
\* features x: None when the artifact lacks a parameter
ReloadedPrediction(md, x) ==
    IF InferenceExc(md, x) # "None" THEN PyNone ELSE Inference(md, x)

\* C10: for every training run of train_simple.py and of simple_train.py,
\* the artifact written holds every model parameter (weights, bias, mean and
\* std, or the trees), and reloaded it predicts for each feature record what
\* the trained model in memory predicts.
C10_ArtifactRoundTrip ==
    (prog \in Trainers /\ pc = "done")
        => /\ (IF prog = "train_simple" THEN {"weights", "bias", "mean_x", "std_x"}
               ELSE {"trees"}) \subseteq DOMAIN modelFile.text
           /\ \A i \in 1..Len(X) :
                  ReloadedPrediction(JsonLoad(modelFile.text), X[i]) = metrics.predictions[i]

\* the feature list of the trainer that runs
TrainSteps == IF prog = "train_simple" THEN LinearTrainSteps ELSE ForestTrainSteps

\* a required numeric field of the record (the float(...) and int(...) elements
\* of the trainer's list) is absent from the record or does not parse
NumericMalformed(steps, record) ==
    \E i \in 1..Len(steps) :
        /\ steps[i].op \in {"float", "int"}
        /\ \/ steps[i].key \notin DOMAIN record
           \/ ~(IF steps[i].op = "float" THEN PyFloatOfStr(record[steps[i].key])
                ELSE PyIntOfCell(record[steps[i].key])).ok

\* C11: in both trainers a record whose stops, duration, days_left or price is
\* unparseable or missing is skipped and the loop goes on to the next record;
\* X and y always have equal length, and each record that is not skipped
\* appends one feature vector to X and its price to y, in input order.
C11_MalformedRecordSkipped ==
    /\ [](prog \in Trainers => Len(X) = Len(y))
    /\ [][(prog \in Trainers /\ pc = "loop" /\ idx' = idx + 1)
            => IF NumericMalformed(TrainSteps, data[idx + 1])
               THEN X' = X /\ y' = y /\ pc' = "loop"
               ELSE \/ X' = X /\ y' = y
                    \/ /\ Len(X') = Len(X) + 1
                       /\ SubSeq(X', 1, Len(X)) = X
                       /\ y' = Append(y, PyFloatOfStr(data[idx + 1]["price"]).v)]_vars

\* the positions of train_model from model.fit on
Fitting == {"fit", "fit_loop", "evaluate", "save", "done"}

HourReturned == frame.fn = "extract_hour" /\ frame.pc = "returned"

\* the string has the form HH:MM with HH in 00..23 and MM in 00..59
IsBareTime(cs) ==
    /\ Len(cs) = 5 /\ cs[3] = ":"
    /\ TwoDigits(cs, 1) \in 0..23 /\ TwoDigits(cs, 4) \in 0..59

\* the string is a timestamp datetime.fromisoformat parses
IsIsoTimestamp(cs) == FromIsoformatHour(ReplaceZ(cs)).ok

\* C13: for every string "HH:MM" with HH in 00..23, extract_hour returns HH,
\* in the trainers (train_simple.py, simple_train.py) and in the servers
\* (api.py, api_simple.py) alike.
C13_BareTimeFragment ==
    (HourReturned /\ IsBareTime(frame.time_str))
        => retval = Ok(TwoDigits(frame.time_str, 1))

\* C14: for every string that is neither a full ISO timestamp nor an HH:MM
\* fragment, every extract_hour returns 12 and raises nothing.
C14_UnparseableTimeIsNoon ==
    (HourReturned /\ ~IsIsoTimestamp(frame.time_str) /\ ~IsBareTime(frame.time_str))
        => retval = Ok(12)

\* C15: for every string, the value extract_hour returns is an integer in 0..23.
C15_HourRange ==
    (HourReturned /\ retval.ok) => retval.v \in 0..23

\* C16: once simple_train.py has fitted its SimpleRandomForest, the forest
\* holds n_trees trees and the prediction for every x it is asked about (the
\* rows of X) is the exact mean of the n_trees tree predictions for x:
\* n_trees times the prediction is the sum of the trees' predictions.
C16_ForestMeanOfTrees ==
    (prog = "simple_train" /\ pc \in {"save", "done"})
        => /\ Len(model.trees) = model.n_trees
           /\ Len(metrics.predictions) = Len(X)
           /\ \A i \in 1..Len(X) :
                  FMul(FInt(model.n_trees), metrics.predictions[i])
                      = FSum([t \in 1..model.n_trees |-> TraverseTree(X[i], model.trees[t])])

\* the forest has predicted for an x on which two of its trees disagree
C16_Witness ==
    /\ prog = "simple_train" /\ pc \in {"save", "done"}
    /\ \E i \in 1..Len(X) : \E t, u \in 1..Len(model.trees) :
           TraverseTree(X[i], model.trees[t]) # TraverseTree(X[i], model.trees[u])

\* SimpleDecisionTree.fit has returned the fitted tree
Fitted == frame.fn = "SimpleDecisionTree.fit" /\ frame.pc = "returned"

IsLeaf(node) == "value" \in DOMAIN node

\* the tree with every leaf's value replaced by the path that leads to it
RECURSIVE LabelLeaves(_, _)
LabelLeaves(node, path) ==
    IF IsLeaf(node) THEN [value |-> path]
    ELSE [node EXCEPT !.left  = LabelLeaves(node.left, Append(path, "left")),
                      !.right = LabelLeaves(node.right, Append(path, "right"))]

\* for every sample, the path of the leaf predict's traversal routes it to
Routes(Xs, tree) == [i \in 1..Len(Xs) |-> TraverseTree(Xs[i], LabelLeaves(tree, <<>>))]

\* the paths of all the nodes of a tree
RECURSIVE NodePaths(_, _)
NodePaths(node, path) ==
    IF IsLeaf(node) THEN {path}
    ELSE {path} \cup NodePaths(node.left, Append(path, "left"))
                \cup NodePaths(node.right, Append(path, "right"))

RECURSIVE NodeAt(_, _)
NodeAt(node, path) ==
    IF path = <<>> THEN node
    ELSE NodeAt(IF Head(path) = "left" THEN node.left ELSE node.right, Tail(path))

IsPrefix(p, q) == Len(p) <= Len(q) /\ SubSeq(q, 1, Len(p)) = p

RECURSIVE TreeDepth(_)
TreeDepth(node) ==
    IF IsLeaf(node) THEN 0
    ELSE 1 + (IF TreeDepth(node.left) >= TreeDepth(node.right)
              THEN TreeDepth(node.left) ELSE TreeDepth(node.right))

\* every leaf receives a sample, and the value a sample's leaf holds is the
\* mean of the targets of the samples routed to that leaf
LeafMeans(Xs, ys, tree, routes) ==
    /\ \A p \in NodePaths(tree, <<>>) :
           IsLeaf(NodeAt(tree, p)) => \E i \in 1..Len(Xs) : routes[i] = p
    /\ \A i \in 1..Len(Xs) :
           TraverseTree(Xs[i], tree)
               = Mean(SelectIdx(ys, LAMBDA k : routes[k] = routes[i], 1))

\* C17: for every tree SimpleDecisionTree.fit builds on a sample set that is
\* not empty, predict's traversal (<= left, > right) routes every training
\* sample to one leaf, every leaf receives a sample, and each leaf's value
\* is the arithmetic mean of the targets of the samples routed to it.
C17_LeafIsMeanOfPartition ==
    Fitted => LeafMeans(frame.X, frame.y, retval.tree, Routes(frame.X, retval.tree))

\* a fitted tree with two leaves, one of them holding samples of different targets
C17_Witness ==
    /\ Fitted /\ ~IsLeaf(retval.tree)
    /\ \E r \in {Routes(frame.X, retval.tree)} :
           \E i, k \in 1..Len(frame.X) : r[i] = r[k] /\ frame.y[i] # frame.y[k]

\* the number of samples whose route passes through the node at path p
Reaching(routes, p) == Cardinality({i \in 1..Len(routes) : IsPrefix(p, routes[i])})

\* both children of every internal node receive samples, fewer than the node
ChildrenSmaller(tree, routes) ==
    \A p \in NodePaths(tree, <<>>) :
        ~IsLeaf(NodeAt(tree, p))
            => /\ Reaching(routes, Append(p, "left")) > 0
               /\ Reaching(routes, Append(p, "right")) > 0
               /\ Reaching(routes, Append(p, "left")) < Reaching(routes, p)
               /\ Reaching(routes, Append(p, "right")) < Reaching(routes, p)

\* C18: for every sample set that is not empty, every max_depth >= 0 and every
\* min_samples_split, _build_tree returns a finite binary tree of depth at
\* most max_depth in which both children of every internal node are built
\* from partitions that are not empty and strictly smaller than the parent's.
C18_TreeDepthBounded ==
    Fitted => /\ TreeDepth(retval.tree) <= frame.max_depth
              /\ ChildrenSmaller(retval.tree, Routes(frame.X, retval.tree))

\* a fitted tree as deep as max_depth allows, with an internal node below the root
C18_Witness ==
    /\ Fitted /\ frame.max_depth = 2 /\ TreeDepth(retval.tree) = 2

\* the samples, in order, whose route passes through the node at path p
SamplesAt(s, routes, p) == SelectIdx(s, LAMBDA i : IsPrefix(p, routes[i]), 1)

\* the (feature, threshold) pairs of a node's samples with both sides not empty
Candidates(Xs) ==
    {c \in {[feature |-> j, split |-> Xs[i][j]] : j \in 1..Len(Xs[1]), i \in 1..Len(Xs)} :
        /\ \E i \in 1..Len(Xs) : FLe(Xs[i][c.feature], c.split)
        /\ \E i \in 1..Len(Xs) : FGt(Xs[i][c.feature], c.split)}

\* the variance reduction of splitting the node's samples on c
GainOf(Xs, ys, c) ==
    CalculateGain(ys, SelectIdx(ys, LAMBDA i : FLe(Xs[i][c.feature], c.split), 1),
                      SelectIdx(ys, LAMBDA i : FGt(Xs[i][c.feature], c.split), 1))

\* c is visited before b: features in index order, thresholds ascending
Precedes(c, b) ==
    \/ c.feature < b.feature
    \/ c.feature = b.feature /\ FGt(b.split, c.split)

\* the node built from the samples Xs, ys splits on the first candidate of
\* the greatest gain if that gain is positive, and is a leaf otherwise
SplitsOnBest(node, Xs, ys, cands) ==
    IF \E c \in cands : FGt(GainOf(Xs, ys, c), Zero)
    THEN /\ ~IsLeaf(node)
         /\ \E b \in cands :
                /\ b.feature = node.feature /\ b.split = node.split
                /\ \A c \in cands :
                       /\ ~FGt(GainOf(Xs, ys, c), GainOf(Xs, ys, b))
                       /\ GainOf(Xs, ys, c) = GainOf(Xs, ys, b) => ~Precedes(c, b)
    ELSE IsLeaf(node)

\* every node that searches for a split (depth below max_depth, at least
\* min_samples_split samples) splits on the best candidate
EveryNodeSplitsOnBest(Xs, ys, tree, routes, max_depth, min_samples_split) ==
    \A p \in NodePaths(tree, <<>>) :
        (Len(p) < max_depth /\ Reaching(routes, p) >= min_samples_split)
            => \E sx \in {SamplesAt(Xs, routes, p)} :
                   SplitsOnBest(NodeAt(tree, p), sx, SamplesAt(ys, routes, p), Candidates(sx))

\* C20: a node of _build_tree that searches for a split takes, among the
\* (feature, threshold) pairs with both sides not empty, the pair of the
\* strictly greatest positive gain, the first one found (features in index
\* order, thresholds ascending) when several have that gain; when no pair has
\* a gain > 0 the node is a leaf.
C20_SplitSelection ==
    Fitted => EveryNodeSplitsOnBest(frame.X, frame.y, retval.tree,
                                    Routes(frame.X, retval.tree),
                                    frame.max_depth, frame.min_samples_split)

\* the root split on the first of two candidates of the same, greatest gain
C20_Witness ==
    /\ Fitted /\ ~IsLeaf(retval.tree)
    /\ \E c \in Candidates(frame.X) :
           /\ c.feature # retval.tree.feature \/ c.split # retval.tree.split
           /\ GainOf(frame.X, frame.y, c)
                  = GainOf(frame.X, frame.y, [feature |-> retval.tree.feature,
                                              split |-> retval.tree.split])

\* LinearRegression.fit is in its gradient descent on a single record
Descending == frame.fn = "LinearRegression.fit" /\ frame.pc = "descent"

\* one iteration of the descent
DescentStep == Descending /\ frame'.fn = frame.fn /\ frame'.iteration = frame.iteration + 1

\* |price - bias| for the single record
Residual(f) == FAbs(FSub(f.y[1], f.self.bias))

\* the training MAE of the model as it stands: train_model lines 171-173
TrainingMae(f) ==
    Mean([i \in 1..Len(f.y) |-> FAbs(FSub(LinearPredict(f.self, f.X)[i], f.y[i]))])

\* std is 1, the standardized features are 0 and the weights are 0
Degenerate(f) ==
    \A j \in 1..Len(f.X[1]) :
        f.self.std_x[j] = FInt(1) /\ f.X_norm[1][j] = Zero /\ f.self.weights[j] = Zero

Kept(steps, record) == Encode(steps, record, EmptyMaps).exc = "None"

\* the values of the column that category map m encodes, in the records kept
\* among data[1..n]
KeptCategories(steps, m, n) ==
    {data[i][steps[j].key] :
        i \in {k \in 1..n : Kept(steps, data[k])},
        j \in {k \in 1..Len(steps) : steps[k].map = m}}

\* C22: a skipped record has no effect on the category maps: during and after
\* the encoding loop of train_model each category map holds exactly the
\* category values of the records kept in X so far (in a run that no
\* exception other than the skipped ones has ended).
C22_SkippedRecordLeavesMaps ==
    (prog \in Trainers /\ pc \notin {"none", "load"} /\ exc \in Skipped \cup {"None"})
        => \A m \in MapKeys : DOMAIN maps[m] = KeptCategories(TrainSteps, m, idx)

\* fit has returned on the forest instance, once or more often
Refitted == frame.fn = "SimpleRandomForest" /\ frame.pc \in {"fitted", "returned"}

\* the trees fit can build from the training set Xs, ys: one for each choice
\* of len(Xs) indices within range
BootstrapTrees(Xs, ys, max_depth) ==
    {BootstrapTree(Xs, ys, indices, max_depth) : indices \in [1..Len(Xs) -> 1..Len(Xs)]}

\* C23: after one or more fit calls on the same SimpleRandomForest the forest
\* holds exactly n_trees trees, each fitted on a bootstrap sample of the most
\* recent fit's data, and predict is the mean over these trees only.
C23_RefitReplacesTrees ==
    Refitted =>
        /\ Len(frame.self.trees) = frame.self.n_trees
        /\ \A t \in 1..Len(frame.self.trees) :
               frame.self.trees[t] \in BootstrapTrees(frame.X, frame.y, frame.self.max_depth)
        /\ frame.pc = "returned" =>
               \E recent \in [1..frame.self.n_trees ->
                                 BootstrapTrees(frame.X, frame.y, frame.self.max_depth)] :
                   retval = ForestPredict(recent, frame.X)

\* fit has computed mean_x and std_x (floating point)
Normalized ==
    frame.fn = "LinearRegression.fit (floats)" /\ frame.pc \in {"descent", "returned"}

\* feature j has the same value in every record of the training set
ConstantFeature(Xs, j) == \A i \in 1..Len(Xs) : Xs[i][j] = Xs[1][j]

\* C21: after LinearRegression.fit on a non-empty training set weights, mean_x
\* and std_x have one entry per feature, every std_x[j] is greater than 0, and
\* std_x[j] is 1 whenever feature j is constant across the training set.
C21_StdPositiveOneIfConstant ==
    Normalized =>
        /\ Len(frame.self.weights) = Len(frame.X[1])
        /\ Len(frame.self.mean_x) = Len(frame.X[1])
        /\ Len(frame.self.std_x) = Len(frame.X[1])
        /\ \A j \in 1..Len(frame.X[1]) :
               /\ FGt(frame.self.std_x[j], Zero)
               /\ ConstantFeature(frame.X, j) => frame.self.std_x[j] = FInt(1)
====
